---- MODULE Spec2Model ----
(***************************************************************************)
(* Structural elaboration of the interconnect fabrics of the ML-block      *)
(* benchmark generator (verilog_ml_benchmark_generator).                    *)
(*                                                                         *)
(* A component is first constructed (its arguments are stored), then       *)
(* elaborated: elaboration runs the component's construct() method, which  *)
(* either raises (an assertion of construct, an out-of-range slice, a      *)
(* TypeError) or leaves behind a set of ports and a set of connections.    *)
(* A connection is a pair of endpoints <<name, idx, lo, hi>>: the bits     *)
(* [lo, hi) of port name<idx>.  A tie to the constant zero is a pair whose *)
(* first endpoint is ZERO.                                                 *)
(***************************************************************************)
EXTENDS Integers, Sequences, FiniteSets, TLC

VARIABLES pc, kind, args, status, ports, wires, conns, ret, sim_in, sim_out

vars == <<pc, kind, args, status, ports, wires, conns, ret, sim_in, sim_out>>

(***************************************************************************)
(* Bounds of the model.                                                    *)
(***************************************************************************)
MaxFactor == 2
MaxMlbs == 8
MaxWidth == 4
MaxCount == 3

(***************************************************************************)
(* Arithmetic helpers (math.floor, math.ceil, min on naturals).            *)
(***************************************************************************)
Min(a, b) == IF a < b THEN a ELSE b

Floor(a, b) == a \div b

Ceil(a, b) == (a + b - 1) \div b

RECURSIVE Pow2(_)
Pow2(n) == IF n <= 0 THEN 1 ELSE 2 * Pow2(n - 1)

ZERO == <<"const0", 0, 0, 0>>

(***************************************************************************)
(* Projection algebra (utils.py).  A projection is a record giving the     *)
(* 'value' of each unrolling factor and its PRELOAD list.                  *)
(***************************************************************************)
AxisNames == {"URW", "URN", "UE", "UB", "UG"}

\* the radix order with UB and UE exchanged
AxisOrderSwapped == <<"URW", "URN", "UB", "UE", "UG">>

\* utils.py:168  the order in which get_overall_idx accumulates the radices
AxisOrder == <<"URW", "URN", "UE", "UB", "UG">>

RECURSIVE VarProductFrom(_, _, _)
VarProductFrom(projection, var_array, k) ==
    IF k > Len(var_array) THEN 1
    ELSE projection[var_array[k]] * VarProductFrom(projection, var_array, k + 1)

get_var_product(projection, var_array) == VarProductFrom(projection, var_array, 1)

get_mlb_count(projection) ==
    get_var_product(projection, <<"URN", "URW", "UB", "UE", "UG">>)

\* the three assertions of get_overall_idx (utils.py:167, 171, 172)
OverallIdxAsserts(projection, idxs) ==
    /\ DOMAIN idxs \subseteq AxisNames
    /\ \A item \in DOMAIN idxs :
          idxs[item] < projection[item] /\ idxs[item] >= 0

RECURSIVE OverallIdxLoop(_, _, _, _, _)
OverallIdxLoop(projection, idxs, k, product, total) ==
    IF k > Len(AxisOrder) THEN total
    ELSE LET item == AxisOrder[k] IN
         IF item \in DOMAIN idxs
         THEN OverallIdxLoop(projection, idxs, k + 1,
                             product * projection[item],
                             total + product * idxs[item])
         ELSE OverallIdxLoop(projection, idxs, k + 1, product, total)

\* an axis missing from idxs counted as a supplied index 0, radix included
OverallIdxMissingAsZero(projection, idxs) ==
    OverallIdxLoop(projection,
                   [a \in AxisNames |-> IF a \in DOMAIN idxs THEN idxs[a] ELSE 0],
                   1, 1, 0)

get_overall_idx(projection, idxs) == OverallIdxLoop(projection, idxs, 1, 1, 0)

(***************************************************************************)
(* Ports of a module under elaboration (utils.py).  A module is a record   *)
(* [status, ports, wires, conns]; a port is <<direction, name, idx, width>>*)
(* and is named name<idx>; wires holds the tie-off wire of each port that  *)
(* tie_off_port was called on.                                             *)
(***************************************************************************)
EmptyModule == [status |-> "ok", ports |-> {}, wires |-> {}, conns |-> {}]

Raise(m, exception) == [m EXCEPT !.status = exception]

HasPort(m, name, idx) == \E q \in m.ports : q[2] = name /\ q[3] = idx

PortWidth(m, name, idx) ==
    (CHOOSE q \in m.ports : q[2] = name /\ q[3] = idx)[4]

tie_off_port(m, name, idx) == [m EXCEPT !.wires = @ \cup {<<name, idx>>}]

tie_off_clk_reset(m) == tie_off_port(tie_off_port(m, "clk", 0), "reset", 0)

AddInPort(m, width, name, idx) ==
    IF HasPort(m, name, idx) THEN m
    ELSE tie_off_port([m EXCEPT !.ports = @ \cup {<<"in", name, idx, width>>}],
                      name, idx)

\* a new OutPort whatever the module already has under the name
AddOutPortUnchecked(m, width, name, idx) ==
    [m EXCEPT !.ports = @ \cup {<<"out", name, idx, width>>}]

AddOutPort(m, width, name, idx) ==
    IF HasPort(m, name, idx) THEN m
    ELSE [m EXCEPT !.ports = @ \cup {<<"out", name, idx, width>>}]

\* for i in range(start_idx, start_idx + n): AddInPort(...); the indices are
\* distinct, so the loop adds exactly the ports that are not there yet
add_n_inputs(m, n, width, prefix, start_idx) ==
    LET new == {i \in start_idx .. start_idx + n - 1 : ~HasPort(m, prefix, i)}
    IN [m EXCEPT !.ports = @ \cup {<<"in", prefix, i, width>> : i \in new},
                 !.wires = @ \cup {<<prefix, i>> : i \in new}]

add_n_outputs(m, n, width, prefix, start_idx) ==
    LET new == {i \in start_idx .. start_idx + n - 1 : ~HasPort(m, prefix, i)}
    IN [m EXCEPT !.ports = @ \cup {<<"out", prefix, i, width>> : i \in new}]

\* port[lo:hi] is a slice of an existing port: slicing outside the port's
\* bits fails an assertion
SliceInRange(m, ep) ==
    /\ HasPort(m, ep[1], ep[2])
    /\ 0 <= ep[3]
    /\ ep[3] < ep[4]
    /\ ep[4] <= PortWidth(m, ep[1], ep[2])

\* connect(a, b) / b //= a, recorded as <<driver, driven>>
Connect(m, driver, driven) ==
    IF (driver = ZERO \/ SliceInRange(m, driver)) /\ SliceInRange(m, driven)
    THEN [m EXCEPT !.conns = @ \cup {<<driver, driven>>}]
    ELSE Raise(m, "AssertionError")

(***************************************************************************)
(* MergeBusses.construct (module_classes.py:663-707).                      *)
(***************************************************************************)
MergeInsPerOut(a) ==
    IF a.ins_per_out = 0 THEN Floor(a.out_width, a.in_width) ELSE a.ins_per_out

MergeNumInsUsed(a) == Min(MergeInsPerOut(a) * a.num_outs, a.num_ins)

MergeBusIdxNext(inp, ins_per_out) == Floor(inp + 1, ins_per_out)

MergeBusIdx(inp, ins_per_out) == Floor(inp, ins_per_out)

MergeBusStartDiv(inp, ins_per_out, in_width) == (inp \div ins_per_out) * in_width

MergeBusStart(inp, ins_per_out, in_width) == (inp % ins_per_out) * in_width

MergeBusEnd(inp, ins_per_out, in_width) == ((inp % ins_per_out) + 1) * in_width

RECURSIVE MergeWireLoop(_, _, _, _)
MergeWireLoop(m, a, inp, num_ins_used) ==
    IF inp >= num_ins_used \/ m.status # "ok" THEN m
    ELSE LET ipo == MergeInsPerOut(a)
             input_bus == <<"input_", inp, 0, a.in_width>>
             output_bus == <<"output_", MergeBusIdx(inp, ipo),
                             MergeBusStart(inp, ipo, a.in_width),
                             MergeBusEnd(inp, ipo, a.in_width)>>
         IN MergeWireLoop(Connect(m, input_bus, output_bus), a, inp + 1,
                          num_ins_used)

RECURSIVE MergeZeroLoop(_, _, _)
MergeZeroLoop(m, a, i) ==
    IF i >= a.num_outs \/ m.status # "ok" THEN m
    ELSE LET ipo == MergeInsPerOut(a) IN
         IF i > Floor(MergeNumInsUsed(a), ipo)
         THEN MergeZeroLoop(Connect(m, ZERO, <<"output_", i, 0, a.out_width>>),
                            a, i + 1)
         ELSE IF ipo * a.in_width < a.out_width
         THEN MergeZeroLoop(Connect(m, ZERO, <<"output_", i, ipo * a.in_width,
                                               a.out_width>>), a, i + 1)
         ELSE MergeZeroLoop(m, a, i + 1)

MergeBussesConstruct(a) ==
    IF ~(MergeInsPerOut(a) > 0) THEN Raise(EmptyModule, "AssertionError")
    ELSE LET m1 == add_n_inputs(EmptyModule, a.num_ins, a.in_width, "input_", 0)
             m2 == add_n_outputs(m1, a.num_outs, a.out_width, "output_", 0)
             m3 == MergeWireLoop(m2, a, 0, MergeNumInsUsed(a))
             m4 == MergeZeroLoop(m3, a, 0)
         IN IF m4.status = "ok" THEN tie_off_clk_reset(m4) ELSE m4

(***************************************************************************)
(* chain_ports(s, start_idx, end_idx, in_name, out_name, width): the chain *)
(* in which the input from MLB i feeds the output to MLB i+1, for the MLBs *)
(* start_idx .. end_idx.  It returns the head (out_name<start_idx>) and    *)
(* the tail (in_name<end_idx>).                                            *)
(***************************************************************************)
RECURSIVE ChainLinks(_, _, _, _, _, _)
ChainLinks(m, idx, end_idx, in_name, out_name, width) ==
    IF idx >= end_idx \/ m.status # "ok" THEN m
    ELSE LET m1 == AddInPort(m, width, in_name, idx)
             m2 == AddOutPort(m1, width, out_name, idx + 1)
         IN ChainLinks(Connect(m2, <<in_name, idx, 0, width>>,
                                   <<out_name, idx + 1, 0, width>>),
                       idx + 1, end_idx, in_name, out_name, width)

chain_ports(m, start_idx, end_idx, in_name, out_name, width) ==
    LET m1 == ChainLinks(m, start_idx, end_idx, in_name, out_name, width)
        m2 == AddOutPort(m1, width, out_name, start_idx)
    IN AddInPort(m2, width, in_name, end_idx)

(***************************************************************************)
(* WeightInterconnect.construct (module_classes.py:734-883).               *)
(***************************************************************************)
WeightMlbWidth(a) == IF a.mlb_width < 0 THEN a.mlb_width_used ELSE a.mlb_width

WeightStreamsPerBuffer(a) == Floor(a.buffer_width, a.mlb_width_used)

WeightNumMlbsUsed(a) == IF a.num_mlbs_used < 0 THEN a.num_mlbs ELSE a.num_mlbs_used

\* the PRELOAD scan: the records with dtype W, the last of which sets
\* preload_bus_count
PreloadW(projection) ==
    {k \in 1 .. Len(projection.PRELOAD) : projection.PRELOAD[k].dtype = "W"}

WeightPreload(projection) == PreloadW(projection) # {}

WeightPreloadBusCount(projection) ==
    IF WeightPreload(projection)
    THEN projection.PRELOAD[CHOOSE k \in PreloadW(projection) :
                               \A j \in PreloadW(projection) : j <= k].bus_count
    ELSE 0

\* the assertions that precede every port (module_classes.py:758-777)
WeightAsserts(a) ==
    /\ a.mlb_width_used <= WeightMlbWidth(a)
    /\ WeightStreamsPerBuffer(a) > 0
    /\ a.num_mlbs >= get_var_product(a.projection,
                                      <<"UG", "UE", "UB", "URN", "URW">>)
    /\ \/ WeightPreload(a.projection)
       \/ a.num_buffers >= Ceil(get_var_product(a.projection,
                                     <<"UG", "UE", "URN", "URW">>),
                                 WeightStreamsPerBuffer(a))

\* the budget check with the number of buffers left out
WeightPreloadAssertOneBuffer(a) ==
    a.mlb_width_used * WeightPreloadBusCount(a.projection) <= a.buffer_width
        \/ a.num_buffers > 1

WeightPreloadAssert(a) ==
    a.mlb_width_used * WeightPreloadBusCount(a.projection)
        <= a.num_buffers * a.buffer_width

WeightChainLen(a) == Ceil(WeightNumMlbsUsed(a), a.num_buffers)

\* a buffer of its own for every stream
WeightBusIdxPerStream(a, stream_idx) == stream_idx

\* input_bus_idx = math.floor(stream_idx / streams_per_buffer)
WeightBusIdx(a, stream_idx) == Floor(stream_idx, WeightStreamsPerBuffer(a))

WeightSectionIdxDiv(a, stream_idx) == stream_idx \div WeightStreamsPerBuffer(a)

WeightSectionIdx(a, stream_idx) == stream_idx % WeightStreamsPerBuffer(a)

\* one iteration of the preload loop (module_classes.py:788-809)
WeightPreloadChain(m, a, chain) ==
    LET chain_len == WeightChainLen(a)
        start_idx == chain * chain_len
        end_idx == Min(WeightNumMlbsUsed(a) - 1, start_idx + chain_len - 1)
        m1 == chain_ports(m, start_idx, end_idx, "inputs_from_mlb_",
                          "outputs_to_mlb_", WeightMlbWidth(a))
        input_bus_idx == WeightBusIdx(a, chain)
        input_bus_start == WeightSectionIdx(a, chain) * a.mlb_width_used
        input_bus_end == (WeightSectionIdx(a, chain) + 1) * a.mlb_width_used
        m2 == Connect(m1, <<"inputs_from_buffer_", input_bus_idx,
                            input_bus_start, input_bus_end>>,
                      <<"outputs_to_mlb_", start_idx, 0, a.mlb_width_used>>)
        m3 == AddOutPort(m2, a.buffer_width, "outputs_to_buffer_", input_bus_idx)
    IN IF m2.status # "ok" THEN m2
       ELSE Connect(m3, <<"inputs_from_mlb_", end_idx, 0, a.mlb_width_used>>,
                    <<"outputs_to_buffer_", input_bus_idx, input_bus_start,
                      input_bus_end>>)

RECURSIVE WeightPreloadLoop(_, _, _)
WeightPreloadLoop(m, a, chain) ==
    IF chain >= a.num_buffers \/ m.status # "ok" THEN m
    ELSE WeightPreloadLoop(WeightPreloadChain(m, a, chain), a, chain + 1)

\* the n-th iteration of the loop nest ug, ue, ub, urn, urw (urw innermost)
LoopPosition(p, n) ==
    [URW |-> n % p.URW,
     URN |-> (n \div p.URW) % p.URN,
     UB |-> (n \div (p.URW * p.URN)) % p.UB,
     UE |-> (n \div (p.URW * p.URN * p.UB)) % p.UE,
     UG |-> (n \div (p.URW * p.URN * p.UB * p.UE)) % p.UG]

IdxDict(pos, axes) == [x \in axes |-> pos[x]]

\* the sub-lane position counted without the width of the inner kernel
WeightTotalUrwNoStride(a, urw, weight_x) == urw + weight_x

\* module_classes.py:853  total_urw
WeightTotalUrw(a, urw, weight_x) == a.inner_projection.URW_x * urw + weight_x

\* the dilated weight sub-lanes of one MLB (module_classes.py:845-858)
RECURSIVE WeightDilationLoop(_, _, _, _, _, _, _)
WeightDilationLoop(m, a, out_idx, urw, input_bus_idx, input_bus_start, input_w) ==
    LET x == a.inner_projection.URW_x
        num_weight_ins == a.inner_projection.UG * a.inner_projection.UE
                          * a.inner_projection.URN
    IN IF input_w >= num_weight_ins * x \/ m.status # "ok" THEN m
       ELSE LET weight_x == input_w % x
                w_width == a.mlb_width_used \div (x * num_weight_ins)
                start_w_idx == w_width * input_w
                end_w_idx == w_width * (input_w + 1)
                total_urw == WeightTotalUrw(a, urw, weight_x)
                newout == <<"outputs_to_mlb_", out_idx, start_w_idx, end_w_idx>>
                m1 == IF total_urw % a.dilx = 0
                      THEN Connect(m, <<"inputs_from_buffer_", input_bus_idx,
                                        input_bus_start + start_w_idx,
                                        input_bus_start + end_w_idx>>, newout)
                      ELSE Connect(m, ZERO, newout)
            IN WeightDilationLoop(m1, a, out_idx, urw, input_bus_idx,
                                  input_bus_start, input_w + 1)

\* one iteration of the streaming loop nest (module_classes.py:817-874)
WeightStreamPosition(m, a, pos) ==
    LET out_idx == get_overall_idx(a.projection, IdxDict(pos, AxisNames))
        m1 == AddOutPort(m, WeightMlbWidth(a), "outputs_to_mlb_", out_idx)
        m2 == AddInPort(m1, WeightMlbWidth(a), "inputs_from_mlb_", out_idx)
        stream_idx == get_overall_idx(a.projection,
                                      IdxDict(pos, {"URW", "URN", "UE", "UG"}))
        input_bus_idx == WeightBusIdx(a, stream_idx)
        input_bus_start == WeightSectionIdx(a, stream_idx) * a.mlb_width_used
        input_bus_end == (WeightSectionIdx(a, stream_idx) + 1) * a.mlb_width_used
        input_bus == <<"inputs_from_buffer_", input_bus_idx, input_bus_start,
                       input_bus_end>>
        newout == <<"outputs_to_mlb_", out_idx, 0, a.mlb_width_used>>
        m3 == IF a.dilx > 1
              THEN IF a.inner_projection.present
                   THEN WeightDilationLoop(m2, a, out_idx, pos.URW,
                                           input_bus_idx, input_bus_start, 0)
                   ELSE IF pos.URW % a.dilx = 0
                        THEN Connect(m2, input_bus, newout)
                        ELSE Connect(m2, ZERO, newout)
              ELSE Connect(m2, input_bus, newout)
        m4 == AddOutPort(m3, a.buffer_width, "outputs_to_buffer_", input_bus_idx)
    IN IF m3.status # "ok" \/ pos.UB # 0 THEN m3
       ELSE Connect(m4, <<"inputs_from_mlb_", out_idx, 0, a.mlb_width_used>>,
                    <<"outputs_to_buffer_", input_bus_idx, input_bus_start,
                      input_bus_end>>)

RECURSIVE WeightStreamLoop(_, _, _)
WeightStreamLoop(m, a, n) ==
    IF n >= get_mlb_count(a.projection) \/ m.status # "ok" THEN m
    ELSE WeightStreamLoop(WeightStreamPosition(m, a, LoopPosition(a.projection, n)),
                          a, n + 1)

\* the MLB ports added without tying the spare outputs to zero
TieDisconnectedMlbsNoZero(m, num_mlbs, mlb_width, i) ==
    IF m.status # "ok" THEN m
    ELSE add_n_inputs(add_n_outputs(m, num_mlbs, mlb_width,
                                    "outputs_to_mlb_", 0),
                      num_mlbs, mlb_width, "inputs_from_mlb_", 0)

\* "Tie disconnected MLBs to 0" (module_classes.py:876-882, 1195-1202)
RECURSIVE TieDisconnectedMlbs(_, _, _, _)
TieDisconnectedMlbs(m, num_mlbs, mlb_width, i) ==
    IF i >= num_mlbs \/ m.status # "ok" THEN m
    ELSE LET m1 == IF HasPort(m, "outputs_to_mlb_", i) THEN m
                   ELSE Connect(AddOutPort(m, mlb_width, "outputs_to_mlb_", i),
                                ZERO, <<"outputs_to_mlb_", i, 0, mlb_width>>)
         IN TieDisconnectedMlbs(AddInPort(m1, mlb_width, "inputs_from_mlb_", i),
                                num_mlbs, mlb_width, i + 1)

WeightInterconnectConstruct(a) ==
    IF ~WeightAsserts(a) THEN Raise(EmptyModule, "AssertionError")
    ELSE LET m1 == add_n_inputs(EmptyModule, a.num_buffers, a.buffer_width,
                                "inputs_from_buffer_", 0)
             m2 == IF WeightPreload(a.projection)
                   THEN IF WeightPreloadAssert(a)
                        THEN WeightPreloadLoop(m1, a, 0)
                        ELSE Raise(m1, "AssertionError")
                   ELSE WeightStreamLoop(m1, a, 0)
             m3 == TieDisconnectedMlbs(m2, a.num_mlbs, WeightMlbWidth(a), 0)
         IN IF m3.status = "ok" THEN tie_off_clk_reset(m3) ELSE m3

(***************************************************************************)
(* OutputPSInterconnect.construct (module_classes.py:1111-1207).           *)
(***************************************************************************)
PSMlbWidth(a) == IF a.mlb_width < 0 THEN a.mlb_width_used ELSE a.mlb_width

PSActsPerStream(a) == Floor(a.mlb_width_used, a.af_width)

\* the assertions without the one on the number of activation units
PSAssertsNoAfCount(a) ==
    /\ a.mlb_width_used <= PSMlbWidth(a)
    /\ a.mlb_width_used % a.af_width = 0
    /\ PSActsPerStream(a) > 0
    /\ a.num_mlbs >= get_var_product(a.projection,
                                      <<"UG", "UE", "UB", "URN", "URW">>)

\* the assertions that precede every port (module_classes.py:1134-1145)
PSAsserts(a) ==
    /\ a.mlb_width_used <= PSMlbWidth(a)
    /\ a.mlb_width_used % a.af_width = 0
    /\ PSActsPerStream(a) > 0
    /\ a.num_mlbs >= get_var_product(a.projection,
                                      <<"UG", "UE", "UB", "URN", "URW">>)
    /\ a.num_afs >= get_var_product(a.projection, <<"UG", "UB", "UE">>)
                       * PSActsPerStream(a)

\* what utils.add_n_outputs hands back to its caller: the function has no
\* return statement, so the caller receives None
add_n_outputs_value(m, n, width, prefix, start_idx) ==
    [is_none |-> TRUE, items |-> {}]

\* the n-th iteration of the loop nest ug, ue, ub (ub innermost)
PSLoopPosition(p, n) ==
    [UB |-> n % p.UB, UE |-> (n \div p.UB) % p.UE,
     UG |-> (n \div (p.UB * p.UE)) % p.UG]

PSChainLen(p) == p.URW * p.URN

\* the partial-sum chains as long as an input chain
PSChainStartUrwOnly(p, chain_idx) == chain_idx * p.URW

\* start_idx = chain_idx * chain_len
PSChainStart(p, chain_idx) == chain_idx * PSChainLen(p)

PSOutputBusIdx(a, chain_idx) == chain_idx * PSActsPerStream(a)

\* the chain head fed from a PS-input buffer (module_classes.py:1171-1184)
PSConnectInput(m, a, chain_idx, start_idx) ==
    IF ~(a.input_buf_width >= a.mlb_width_used) THEN Raise(m, "AssertionError")
    ELSE LET streams_per_buffer == Floor(a.input_buf_width, a.mlb_width_used)
             input_bus_idx == Floor(chain_idx, streams_per_buffer)
             section_idx == chain_idx % streams_per_buffer
         IN IF ~HasPort(m, "ps_inputs_from_buffer_", input_bus_idx)
            THEN Raise(m, "AttributeError")
            ELSE Connect(m, <<"ps_inputs_from_buffer_", input_bus_idx,
                              section_idx * a.mlb_width_used,
                              (section_idx + 1) * a.mlb_width_used>>,
                         <<"outputs_to_mlb_", start_idx, 0, a.mlb_width_used>>)

\* the tail sliced into activation inputs (module_classes.py:1186-1193)
RECURSIVE PSOutPartLoop(_, _, _, _, _)
PSOutPartLoop(m, a, chain_idx, end_idx, out_part) ==
    IF out_part >= PSActsPerStream(a) \/ m.status # "ok" THEN m
    ELSE PSOutPartLoop(
             Connect(m, <<"inputs_from_mlb_", end_idx, out_part * a.af_width,
                          (out_part + 1) * a.af_width>>,
                     <<"outputs_to_afs_", PSOutputBusIdx(a, chain_idx) + out_part,
                       0, a.af_width>>),
             a, chain_idx, end_idx, out_part + 1)

\* one iteration of the loop nest (module_classes.py:1157-1193)
PSChain(m, a, pos) ==
    LET p == a.projection
        chain_idx == get_overall_idx(p, IdxDict(pos, {"UB", "UG", "UE"}))
        start_idx == PSChainStart(p, chain_idx)
        end_idx == start_idx + PSChainLen(p) - 1
        m1 == chain_ports(m, start_idx, end_idx, "inputs_from_mlb_",
                          "outputs_to_mlb_", PSMlbWidth(a))
        m2 == IF m1.status = "ok" /\ a.num_input_bufs = 0
              THEN Connect(m1, ZERO,
                           <<"outputs_to_mlb_", start_idx, 0, a.mlb_width_used>>)
              ELSE m1
        m3 == IF m2.status = "ok" /\ a.num_input_bufs > 0
              THEN PSConnectInput(m2, a, chain_idx, start_idx)
              ELSE m2
    IN PSOutPartLoop(m3, a, chain_idx, end_idx, 0)

RECURSIVE PSChainLoop(_, _, _)
PSChainLoop(m, a, n) ==
    IF n >= get_var_product(a.projection, <<"UG", "UE", "UB">>)
       \/ m.status # "ok" THEN m
    ELSE PSChainLoop(PSChain(m, a, PSLoopPosition(a.projection, n)), a, n + 1)

\* "Tie disconnected outs to 0" (module_classes.py:1203-1206): the loop over
\* the value returned by add_n_outputs
PSTieDisconnectedOuts(m, a, outs_to_afs) ==
    IF m.status # "ok" THEN m
    ELSE IF outs_to_afs.is_none THEN Raise(m, "TypeError")
    ELSE [m EXCEPT !.conns = @ \cup
             {<<ZERO, <<"outputs_to_afs_", j, 0, a.af_width>>>> :
                 j \in {i \in outs_to_afs.items :
                           ~\E c \in m.conns : c[2][1] = "outputs_to_afs_"
                                                /\ c[2][2] = i}}]

OutputPSInterconnectConstruct(a) ==
    IF ~PSAsserts(a) THEN Raise(EmptyModule, "AssertionError")
    ELSE LET m1 == add_n_outputs(EmptyModule, a.num_afs, a.af_width,
                                 "outputs_to_afs_", 0)
             outs_to_afs == add_n_outputs_value(EmptyModule, a.num_afs,
                                a.af_width, "outputs_to_afs_", 0)
             m2 == IF a.num_input_bufs > 0
                   THEN add_n_inputs(m1, a.num_input_bufs, a.input_buf_width,
                                     "ps_inputs_from_buffer_", 0)
                   ELSE m1
             m3 == PSChainLoop(m2, a, 0)
             m4 == TieDisconnectedMlbs(m3, a.num_mlbs, PSMlbWidth(a), 0)
             m5 == PSTieDisconnectedOuts(m4, a, outs_to_afs)
         IN IF m5.status = "ok" THEN tie_off_clk_reset(m5) ELSE m5

(***************************************************************************)
(* InputInterconnect.construct (module_classes.py:911-1083).  The sub-axes *)
(* y of URN and UB are the fields URN_y and UB_y of a projection.  The     *)
(* widths handled here are whole multiples of inner_width, so the          *)
(* quotients the code computes in floating point are whole numbers.        *)
(***************************************************************************)
InputMlbWidth(a) == IF a.mlb_width < 0 THEN a.mlb_width_used ELSE a.mlb_width

\* buffer_width after lines 951-953: with several buffers the usable width
\* is what get_max_input_bus_width returned
InputBufferWidth(a) == IF a.num_buffers > 1 THEN a.max_bus_width
                       ELSE a.buffer_width

\* math.ceil(1/streams_per_buffer), math.ceil((mlb_width_used/inner_width)
\* / ins_per_buffer)
InputBuffersPerStream(a) == Ceil(a.mlb_width_used, InputBufferWidth(a))

\* ins_per_buffer = (mlb_width_used/inner_width) * streams_per_buffer
InputInsPerBuffer(a) == InputBufferWidth(a) \div a.inner_width

InputAsserts(a) ==
    /\ a.mlb_width_used <= InputMlbWidth(a)
    /\ a.num_mlbs >= get_var_product(a.projection,
                                      <<"UG", "UE", "UB", "URN", "URW">>)

InputTotalUrn(a) == a.inner_projection.URN_y * a.projection.URN_y

InputMuxSize(a) ==
    IF InputTotalUrn(a) = 1 THEN 1
    ELSE a.projection.UB_y * a.inner_projection.UB_y * InputTotalUrn(a)

InputMaxUbbi(a) ==
    IF InputTotalUrn(a) = 1 THEN 1
    ELSE a.inner_projection.UB \div a.inner_projection.UB_y

InputMaxUnci(a) ==
    IF InputTotalUrn(a) = 1 THEN 1
    ELSE a.inner_projection.URN \div a.inner_projection.URN_y

InputMuxed(a) == a.mux_urn /\ InputMuxSize(a) > 1

\* muxes instantiated per (ug, ue, ubb, urnc) group
InputMuxesPerGroup(a) ==
    a.inner_projection.UG * InputMaxUbbi(a) * InputMaxUnci(a)

\* utils.get_overall_idx_new with order = utils.input_order: the radix
\* order URN.chans, UB.batches, URN.y, UB.y, UG over the sub-axes of p
get_overall_idx_new(p, urnc, ubb, urny, uby, ug) ==
    urnc + (p.URN \div p.URN_y)
             * (ubb + (p.UB \div p.UB_y)
                        * (urny + p.URN_y * (uby + p.UB_y * ug)))

\* the n-th iteration of the loop nest ug, ue, ubb, urnc, uby, urny (urny
\* innermost)
InputLoopPosition(p, n) ==
    LET nchans == p.URN \div p.URN_y
        nbatches == p.UB \div p.UB_y
    IN [urny |-> n % p.URN_y,
        uby |-> (n \div p.URN_y) % p.UB_y,
        urnc |-> (n \div (p.URN_y * p.UB_y)) % nchans,
        ubb |-> (n \div (p.URN_y * p.UB_y * nchans)) % nbatches,
        ue |-> (n \div (p.URN_y * p.UB_y * nchans * nbatches)) % p.UE,
        ug |-> (n \div (p.URN_y * p.UB_y * nchans * nbatches * p.UE)) % p.UG,
        group |-> n \div (p.URN_y * p.UB_y)]

InputLoopCount(p) ==
    p.URN_y * p.UB_y * (p.URN \div p.URN_y) * (p.UB \div p.UB_y) * p.UE * p.UG

RECURSIVE CeilLog2(_)
CeilLog2(n) == IF n <= 1 THEN 0 ELSE 1 + CeilLog2((n + 1) \div 2)

\* the ports of MUX_NXN instance k: in<i>, out<i> for i < mux_size, and sel
InputAddMux(m, a, k) ==
    LET size == InputMuxSize(a)
        m1 == [m EXCEPT !.ports = @
                 \cup {<<"sub", "mux_in", k * size + i, a.inner_width>> :
                          i \in 0 .. size - 1}
                 \cup {<<"sub", "mux_out", k * size + i, a.inner_width>> :
                          i \in 0 .. size - 1}
                 \cup {<<"sub", "mux_sel", k, CeilLog2(size)>>}]
    IN Connect(m1, <<"urn_sel", 0, 0, CeilLog2(size)>>,
               <<"mux_sel", k, 0, CeilLog2(size)>>)

\* lines 979-987: the muxes of one (ug, ue, ubb, urnc) group
RECURSIVE InputAddMuxes(_, _, _, _)
InputAddMuxes(m, a, group, mi) ==
    IF mi >= InputMuxesPerGroup(a) \/ m.status # "ok" THEN m
    ELSE InputAddMuxes(InputAddMux(m, a, group * InputMuxesPerGroup(a) + mi),
                       a, group, mi + 1)

\* lines 1023-1055: the taps (ugi, ubbi, unci, ubyi, unyi) of the inner
\* projection that lie in buffer buf of the stream, as
\* <<mux, mux_in_idx, mlb_in_idx, curr_uny>>
InputMuxTaps(a, pos, buf) ==
    LET ip == a.inner_projection
    IN {<<pos.group * InputMuxesPerGroup(a)
            + t[1] * InputMaxUbbi(a) * InputMaxUnci(a)
            + t[2] * InputMaxUnci(a) + t[3],
          (pos.uby * ip.UB_y + t[4]) * InputTotalUrn(a)
            + pos.urny * ip.URN_y + t[5],
          get_overall_idx_new(ip, t[3], t[2], t[5], t[4], t[1]),
          pos.urny * ip.URN_y + t[5]>> :
           t \in {u \in (0 .. ip.UG - 1) \X (0 .. InputMaxUbbi(a) - 1)
                        \X (0 .. InputMaxUnci(a) - 1) \X (0 .. ip.UB_y - 1)
                        \X (0 .. ip.URN_y - 1) :
                     get_overall_idx_new(ip, u[3], u[2], u[5], u[4], u[1])
                         \div InputInsPerBuffer(a) = buf}}

InputMuxConns(a, pos, buf, input_bus_idx, input_bus_start, start_idx) ==
    LET size == InputMuxSize(a)
        w == a.inner_width
    IN UNION {
         {<<<<"inputs_from_buffer_", input_bus_idx,
              input_bus_start + (t[3] % InputInsPerBuffer(a)) * w,
              input_bus_start + (t[3] % InputInsPerBuffer(a)) * w + w>>,
            <<"mux_in", t[1] * size + t[2], 0, w>>>>,
          <<IF t[4] % a.dily = 0
            THEN <<"mux_out", t[1] * size + t[2], 0, w>> ELSE ZERO,
            <<"outputs_to_mlb_", start_idx, t[3] * w, (t[3] + 1) * w>>>>} :
         t \in InputMuxTaps(a, pos, buf)}

InputConnectMuxes(m, a, pos, buf, input_bus_idx, input_bus_start, start_idx) ==
    LET new == InputMuxConns(a, pos, buf, input_bus_idx, input_bus_start,
                             start_idx)
    IN IF new # {} /\ a.num_buffers > 1 /\ ~a.buffer_idxs_agree
       THEN Raise(m, "AssertionError")
       ELSE IF \A c \in new : /\ c[1] = ZERO \/ SliceInRange(m, c[1])
                              /\ SliceInRange(m, c[2])
            THEN [m EXCEPT !.conns = @ \cup new]
            ELSE Raise(m, "AssertionError")

\* floor(stream_idx / floor(streams_per_buffer)) when a buffer holds more
\* than one stream, stream_idx*buffers_per_stream + buf otherwise
InputBusIdx(a, stream_idx, buf) ==
    IF InputBufferWidth(a) > a.mlb_width_used
    THEN Floor(stream_idx, Floor(InputBufferWidth(a), a.mlb_width_used))
    ELSE stream_idx * InputBuffersPerStream(a) + buf

\* every stream read from the low bits of its buffer
InputBusStartZero(a, stream_idx) == 0

InputBusStart(a, stream_idx) ==
    IF InputBufferWidth(a) > a.mlb_width_used
    THEN (stream_idx % Floor(InputBufferWidth(a), a.mlb_width_used))
             * a.mlb_width_used
    ELSE 0

\* lines 1009-1074: one buffer of the stream of one chain
InputConnectBuffer(m, a, pos, stream_idx, start_idx, end_idx, buf) ==
    LET input_bus_idx == InputBusIdx(a, stream_idx, buf)
        input_bus_start == InputBusStart(a, stream_idx)
        section_w == Min(InputBufferWidth(a), a.mlb_width_used)
        buf_start_idx == buf * section_w
        connection_width == Min(InputMlbWidth(a), buf_start_idx + section_w)
                                - buf_start_idx
        m1 == IF InputMuxed(a)
              THEN InputConnectMuxes(m, a, pos, buf, input_bus_idx,
                                     input_bus_start, start_idx)
              ELSE Connect(m, <<"inputs_from_buffer_", input_bus_idx,
                                input_bus_start,
                                input_bus_start + connection_width>>,
                           <<"outputs_to_mlb_", start_idx, buf_start_idx,
                             buf_start_idx + connection_width>>)
        m2 == AddOutPort(m1, InputBufferWidth(a), "outputs_to_buffer_",
                         input_bus_idx)
    IN IF ~HasPort(m, "inputs_from_buffer_", input_bus_idx)
       THEN Raise(m, "AttributeError")
       ELSE IF m1.status # "ok" \/ pos.ue # 0 THEN m1
       ELSE Connect(m2, <<"inputs_from_mlb_", end_idx, buf_start_idx,
                          buf_start_idx + connection_width>>,
                    <<"outputs_to_buffer_", input_bus_idx, input_bus_start,
                      input_bus_start + connection_width>>)

RECURSIVE InputBufferLoop(_, _, _, _, _, _, _)
InputBufferLoop(m, a, pos, stream_idx, start_idx, end_idx, buf) ==
    IF buf >= InputBuffersPerStream(a) \/ m.status # "ok" THEN m
    ELSE InputBufferLoop(
             InputConnectBuffer(m, a, pos, stream_idx, start_idx, end_idx, buf),
             a, pos, stream_idx, start_idx, end_idx, buf + 1)

\* the chains laid end to end without the URW stride
InputChainStartNoStride(p, chain_idx) == chain_idx

\* start_idx = chain_idx * projection['URW']['value']
InputChainStart(p, chain_idx) == chain_idx * p.URW

\* lines 978-1074: one iteration (ug, ue, ubb, urnc, uby, urny)
InputChain(m, a, pos) ==
    LET p == a.projection
        m0 == IF InputMuxed(a) /\ pos.uby = 0 /\ pos.urny = 0
              THEN IF a.inner_projection.present
                   THEN InputAddMuxes(m, a, pos.group, 0)
                   ELSE Raise(m, "KeyError")
              ELSE m
        ub == pos.ubb * p.UB_y + pos.uby
        urn == pos.urnc * p.URN_y + pos.urny
        chain_idx == get_overall_idx(p, [URN |-> urn, UB |-> ub, UG |-> pos.ug,
                                         UE |-> pos.ue])
        start_idx == InputChainStart(p, chain_idx)
        end_idx == start_idx + p.URW - 1
        m1 == IF m0.status # "ok" THEN m0
              ELSE chain_ports(m0, start_idx, end_idx, "inputs_from_mlb_",
                               "outputs_to_mlb_", InputMlbWidth(a))
        stream_idx == get_overall_idx_new(p, pos.urnc, pos.ubb, pos.urny,
                                          pos.uby, pos.ug)
    IN InputBufferLoop(m1, a, pos, stream_idx, start_idx, end_idx, 0)

RECURSIVE InputChainLoop(_, _, _)
InputChainLoop(m, a, n) ==
    IF n >= InputLoopCount(a.projection) \/ m.status # "ok" THEN m
    ELSE InputChainLoop(InputChain(m, a, InputLoopPosition(a.projection, n)),
                        a, n + 1)

InputInterconnectConstruct(a) ==
    IF ~InputAsserts(a) THEN Raise(EmptyModule, "AssertionError")
    ELSE LET m1 == add_n_inputs(EmptyModule, a.num_buffers, a.buffer_width,
                                "inputs_from_buffer_", 0)
             m2 == IF InputMuxed(a)
                   THEN AddInPort(m1, CeilLog2(InputMuxSize(a)), "urn_sel", 0)
                   ELSE m1
             m3 == InputChainLoop(m2, a, 0)
             m4 == TieDisconnectedMlbs(m3, a.num_mlbs, InputMlbWidth(a), 0)
         IN IF m4.status = "ok" THEN tie_off_clk_reset(m4) ELSE m4

(***************************************************************************)
(* Stream and buffer counts (utils.py:52-87, 116-152).  A datatype string  *)
(* is the set of its letters; a hardware specification is the sequence of  *)
(* its ports [type, direction, width].                                     *)
(***************************************************************************)
\* the axes whose product is the stream count of a datatype
StreamAxes(t) ==
    IF t = "W" THEN <<"URW", "URN", "UE", "UG">>
    ELSE IF t = "I" THEN <<"URN", "UB", "UG">>
    ELSE <<"UE", "UB", "UG">>

\* the O product taken over the I axes
StreamCountOfTypeInputAxes(projection, t) ==
    LET recs == {k \in 1 .. Len(projection.PRELOAD) :
                    projection.PRELOAD[k].dtype = t}
    IN IF recs = {}
       THEN get_var_product(projection, StreamAxes(IF t = "O" THEN "I" ELSE t))
       ELSE projection.PRELOAD[CHOOSE k \in recs : \A j \in recs : j <= k]
                .bus_count

\* ws / wi / wo: the product, overwritten by the bus_count of every PRELOAD
\* record of the datatype in turn (the last one stays)
StreamCountOfType(projection, t) ==
    LET recs == {k \in 1 .. Len(projection.PRELOAD) :
                    projection.PRELOAD[k].dtype = t}
    IN IF recs = {} THEN get_var_product(projection, StreamAxes(t))
       ELSE projection.PRELOAD[CHOOSE k \in recs : \A j \in recs : j <= k]
                .bus_count

\* the sum over the letters of dtype, each counted once; a letter outside
\* WIO fails the assertion
get_proj_stream_count(projection, dtype) ==
    IF ~(dtype \subseteq {"W", "I", "O"})
    THEN [status |-> "AssertionError", value |-> -1]
    ELSE [status |-> "ok",
          value |-> (IF "W" \in dtype THEN StreamCountOfType(projection, "W")
                     ELSE 0)
                    + (IF "I" \in dtype THEN StreamCountOfType(projection, "I")
                       ELSE 0)
                    + (IF "O" \in dtype THEN StreamCountOfType(projection, "O")
                       ELSE 0)]

RECURSIVE SumWidths(_, _, _, _)
SumWidths(hw_ports, type, dir, k) ==
    IF k > Len(hw_ports) THEN 0
    ELSE (IF hw_ports[k].type = type /\ hw_ports[k].direction \in dir
          THEN hw_ports[k].width ELSE 0)
         + SumWidths(hw_ports, type, dir, k + 1)

get_sum_datatype_width(hw_spec, type, dir) == SumWidths(hw_spec, type, dir, 1)

\* the ceiling taken as a floor
BuffersReqdFloor(buffer_spec, stream_count, stream_width) ==
    LET width == get_sum_datatype_width(buffer_spec, "DATAOUT", {"in", "out"})
        streams_per_buffer == Floor(width, stream_width)
    IN IF ~(width > 0) \/ ~(streams_per_buffer > 0)
       THEN [status |-> "AssertionError", value |-> -1]
       ELSE [status |-> "ok", value |-> Floor(stream_count, streams_per_buffer)]

get_num_buffers_reqd(buffer_spec, stream_count, stream_width) ==
    LET width == get_sum_datatype_width(buffer_spec, "DATAOUT", {"in", "out"})
        streams_per_buffer == Floor(width, stream_width)
    IN IF ~(width > 0) \/ ~(streams_per_buffer > 0)
       THEN [status |-> "AssertionError", value |-> -1]
       ELSE [status |-> "ok", value |-> Ceil(stream_count, streams_per_buffer)]

(***************************************************************************)
(* HWB_Wrapper.construct (module_classes.py:529-568).  spec.ports is a     *)
(* sequence of records [name, width, direction, type]; the wrapper holds   *)
(* count instances of the block.  A top-level port that carries the        *)
(* block's own port name is <<dir, name, NoSuffix, width>>, the port       *)
(* name_i is <<dir, name, i, width>>.  A connection of the wrapper is a    *)
(* pair <<driver, driven>> of endpoints <<owner, name, idx>>: owner "s" is *)
(* a top-level port of the wrapper, owner "inst" the port name of the      *)
(* instance idx.                                                           *)
(***************************************************************************)
NoSuffix == -1

HwbTop(name, idx) == <<"s", name, idx>>

HwbInst(name, i) == <<"inst", name, i>>

HwbConnect(m, driver, driven) ==
    [m EXCEPT !.conns = @ \cup {<<driver, driven>>}]

\* a port is shared whatever its direction
HwbSharedAnyDirection(port) ==
    port.type \in {"C", "ADDRESS", "W_EN", "I_EN", "ACC_EN", "MODE"}

\* module_classes.py:550-554  the condition of the shared branch
HwbShared(port) ==
    /\ port.type \in {"C", "ADDRESS", "W_EN", "I_EN", "ACC_EN", "MODE"}
    /\ port.direction = "in"

\* utils.connect_in_to_top(s, port, newname)
connect_in_to_top(m, port, i) ==
    IF port.name = "clk" \/ port.name = "reset" THEN m
    ELSE HwbConnect(AddInPort(m, port.width, port.name, i),
                    HwbTop(port.name, i), HwbInst(port.name, i))

\* utils.connect_out_to_top(s, port, newname)
connect_out_to_top(m, port, i) ==
    HwbConnect(AddOutPort(m, port.width, port.name, i),
               HwbInst(port.name, i), HwbTop(port.name, i))

\* the body of "for port in spec['ports']" for the instance i
HwbPort(m, port, i) ==
    IF HwbShared(port)
    THEN HwbConnect(AddInPort(m, port.width, port.name, NoSuffix),
                    HwbTop(port.name, NoSuffix), HwbInst(port.name, i))
    ELSE IF port.type \notin {"CLK", "RESET"}
         THEN IF port.direction = "in"
              THEN connect_in_to_top(m, port, i)
              ELSE connect_out_to_top(m, port, i)
         ELSE m

RECURSIVE HwbPortLoop(_, _, _, _)
HwbPortLoop(m, spec, i, k) ==
    IF k > Len(spec.ports) THEN m
    ELSE HwbPortLoop(HwbPort(m, spec.ports[k], i), spec, i, k + 1)

RECURSIVE HwbInstanceLoop(_, _, _)
HwbInstanceLoop(m, a, i) ==
    IF i >= a.count THEN m
    ELSE HwbInstanceLoop(HwbPortLoop(m, a.spec, i, 1), a, i + 1)

HWB_WrapperConstruct(a) ==
    tie_off_clk_reset(HwbInstanceLoop(EmptyModule, a, 0))

(***************************************************************************)
(* MLB_Wrapper.construct, the rewriting of an inner projection against the *)
(* block's possible_projections (module_classes.py:169-222).  An inner     *)
(* projection ip maps each factor to a record with the key value and any   *)
(* of the sub-axis keys x, y, chans, batches; spec_keys maps each factor   *)
(* to the bound the block supports.  A step returns [status, ip].          *)
(***************************************************************************)
RewriteKeys == <<"URW", "URN", "UE", "UB", "UG">>

RECURSIVE IpProductFrom(_, _)
IpProductFrom(ip, k) ==
    IF k > Len(RewriteKeys) THEN 1
    ELSE ip[RewriteKeys[k]].value * IpProductFrom(ip, k + 1)

\* module_classes.py:173-177  total_product and max_product
IpTotalProduct(ip) == IpProductFrom(ip, 1)

IpMaxProduct(spec_keys) ==
    get_var_product(spec_keys, RewriteKeys)

\* if (key in rec): rec[key] = v
SetIfPresent(rec, key, v) ==
    IF key \in DOMAIN rec THEN [rec EXCEPT ![key] = v] ELSE rec

RewriteOk(ip) == [status |-> "ok", ip |-> ip]

RewriteFail(ip, exception) == [status |-> exception, ip |-> ip]

\* module_classes.py:179-188
RewriteURW(spec_keys, ip) ==
    IF ip.URW.value > spec_keys.URW
    THEN IF spec_keys.URW # 1 THEN RewriteFail(ip, "AssertionError")
         ELSE IF "chans" \in DOMAIN ip.URN /\ "y" \notin DOMAIN ip.URN
         THEN RewriteFail(ip, "KeyError")
         ELSE LET urn1 == IF "chans" \in DOMAIN ip.URN
                          THEN [ip.URN EXCEPT !.y = @ * ip.URW.value]
                          ELSE ip.URN
                  urn2 == [urn1 EXCEPT !.value = @ * ip.URW.value]
                  urw == SetIfPresent(SetIfPresent(
                             [ip.URW EXCEPT !.value = 1], "x", 1), "y", 1)
              IN RewriteOk([ip EXCEPT !.URN = urn2, !.URW = urw])
    ELSE RewriteOk(ip)

\* module_classes.py:191-201  the body of the URN branch
FoldURN(spec_keys, ip) ==
    IF spec_keys.URN # 1 THEN RewriteFail(ip, "AssertionError")
    ELSE IF ~(ip.URN.value <= spec_keys.UG)
    THEN RewriteFail(ip, "AssertionError")
    ELSE RewriteOk([ip EXCEPT
             !.UG = [@ EXCEPT !.value = ip.URN.value * @],
             !.URN = SetIfPresent(SetIfPresent(SetIfPresent(
                         [@ EXCEPT !.value = 1], "chans", 1), "x", 1),
                         "y", 1)])

\* the URN step without the assertion of line 190
RewriteURNNoAssert(spec_keys, ip) ==
    IF ip.URN.value > spec_keys.URN THEN FoldURN(spec_keys, ip)
    ELSE RewriteOk(ip)

\* module_classes.py:190-201  the assertion comes before the branch
RewriteURN(spec_keys, ip) ==
    IF ~(ip.URN.value <= spec_keys.URN)
    THEN RewriteFail(ip, "AssertionError")
    ELSE IF ip.URN.value > spec_keys.URN THEN FoldURN(spec_keys, ip)
    ELSE RewriteOk(ip)

\* module_classes.py:203-213
RewriteUB(spec_keys, ip) ==
    IF ip.UB.value > spec_keys.UB
    THEN IF spec_keys.UB # 1 THEN RewriteFail(ip, "AssertionError")
         ELSE IF ~(ip.UB.value <= spec_keys.UG)
         THEN RewriteFail(ip, "AssertionError")
         ELSE RewriteOk([ip EXCEPT
                  !.UG = [@ EXCEPT !.value = ip.UB.value * @],
                  !.UB = SetIfPresent(SetIfPresent(SetIfPresent(
                             [@ EXCEPT !.value = 1], "batches", 1), "x", 1),
                             "y", 1)])
    ELSE RewriteOk(ip)

\* module_classes.py:215-219
RewriteUE(spec_keys, ip) ==
    IF ip.UE.value > spec_keys.UE
    THEN IF spec_keys.UE # 1 THEN RewriteFail(ip, "AssertionError")
         ELSE IF ~(ip.UE.value <= spec_keys.UG)
         THEN RewriteFail(ip, "AssertionError")
         ELSE RewriteOk([ip EXCEPT
                  !.UG = [@ EXCEPT !.value = ip.UE.value * @],
                  !.UE = [@ EXCEPT !.value = 1]])
    ELSE RewriteOk(ip)

\* the rewriting without its closing assertion
RewriteUGNoAssert(spec_keys, ip) == RewriteOk(ip)

\* module_classes.py:221
RewriteUGAssert(spec_keys, ip) ==
    IF ip.UG.value <= spec_keys.UG THEN RewriteOk(ip)
    ELSE RewriteFail(ip, "AssertionError")

\* module_classes.py:172-221  the body of "for ip in inner_projs"; a step
\* runs unless an earlier one raised
RewriteInner(spec_keys, ip) ==
    IF ~(IpTotalProduct(ip) <= IpMaxProduct(spec_keys))
    THEN RewriteFail(ip, "AssertionError")
    ELSE LET r1 == RewriteURW(spec_keys, ip)
             r2 == IF r1.status = "ok" THEN RewriteURN(spec_keys, r1.ip)
                   ELSE r1
             r3 == IF r2.status = "ok" THEN RewriteUB(spec_keys, r2.ip)
                   ELSE r2
             r4 == IF r3.status = "ok" THEN RewriteUE(spec_keys, r3.ip)
                   ELSE r3
         IN IF r4.status = "ok" THEN RewriteUGAssert(spec_keys, r4.ip)
            ELSE r4

\* The two lists of construct: each name denotes an object, an assignment
\* through a name changes the object it denotes.
\* copy_projs = projs: one object under both names
SameObjectProjs(ip) ==
    [ref |-> [projs |-> 1, copy_projs |-> 1], obj |-> <<ip, ip>>]

\* module_classes.py:132  copy_projs = copy.deepcopy(projs): a second object
\* with the contents of the first
DeepCopyProjs(ip) ==
    [ref |-> [projs |-> 1, copy_projs |-> 2], obj |-> <<ip, ip>>]

\* module_classes.py:132, 168-222: the inner projection rewritten is the one
\* of copy_projs (line 168); the assignments made before an exception stay.
\* Returns the status and the contents of projs and copy_projs afterwards.
MLB_WrapperRewrite(a) ==
    LET h == DeepCopyProjs(a.ip)
        target == h.ref.copy_projs
        r == RewriteInner(a.spec_keys, h.obj[target])
        obj1 == [h.obj EXCEPT ![target] = r.ip]
    IN [status |-> r.status, projs |-> obj1[h.ref.projs],
        copy_projs |-> obj1[h.ref.copy_projs]]

(***************************************************************************)
(* The mapping enumerator find_mappings (constraint_evaluation.py, which   *)
(* is not part of the sources at hand: modelled from the specification of  *)
(* the enumerator and the calls of test_constraint_evaluation.py).  A      *)
(* workload gives the size of each of the seven axes; a mapping gives each *)
(* axis A its outer, inner and temporal factor [O, I, T] (AO, AI, AT).     *)
(* The block has no possible_projections (as in the tests).  The           *)
(* access-pattern cost counts the axes unrolled inside the block that none *)
(* of the block's access patterns serves; the set of those axes stands for *)
(* hwb.access_patterns.  The estimator is an integer function of the       *)
(* cycle count and of the utilization, and is an input of the model.       *)
(***************************************************************************)
WorkloadAxes == <<"B", "C", "E", "PX", "PY", "RX", "RY">>

WorkloadAxisSet == {WorkloadAxes[k] : k \in 1 .. Len(WorkloadAxes)}

\* factor triples whose product covers n without being equal to it
TriplesCovering(n) ==
    {t \in [O : 1 .. n, I : 1 .. n, T : 1 .. n] : t.O * t.I * t.T >= n}

\* objective (i): the factor triples (AO, AI, AT) of an axis of size n
Triples(n) ==
    {t \in [O : 1 .. n, I : 1 .. n, T : 1 .. n] : t.O * t.I * t.T = n}

\* the mappings over the first k axes, extended axis by axis in the fixed
\* order of the axes
RECURSIVE ExtendMappings(_, _, _)
ExtendMappings(w, k, partial) ==
    IF k > Len(WorkloadAxes) THEN partial
    ELSE LET A == WorkloadAxes[k]
         IN ExtendMappings(w, k + 1,
                {[a \in DOMAIN M \cup {A} |-> IF a = A THEN t ELSE M[a]] :
                    M \in partial, t \in Triples(w[A])})

FactorMappings(w) == ExtendMappings(w, 1, {<< >>})

RECURSIVE FactorProductFrom(_, _, _)
FactorProductFrom(M, f, k) ==
    IF k > Len(WorkloadAxes) THEN 1
    ELSE M[WorkloadAxes[k]][f] * FactorProductFrom(M, f, k + 1)

\* used_MACs: the product of the seven inner factors
InnerProduct(M) == FactorProductFrom(M, "I", 1)

\* c(M): the product of the temporal factors
Cycles(M) == FactorProductFrom(M, "T", 1)

\* objective (iv): the access-pattern cost of the inner factorization
AccessPatternCost(hwb, M) ==
    Cardinality({A \in hwb.unserved : M[A].I > 1})

\* the objective without the MAC budget
AdmissibleNoBudget(hwb, m, soft, M) ==
    soft \/ AccessPatternCost(hwb, M) = 0

\* objectives (ii) and (iv)
Admissible(hwb, m, soft, M) ==
    /\ InnerProduct(M) <= m
    /\ soft \/ AccessPatternCost(hwb, M) = 0

\* the throughput estimator: an integer derived from c(M) and from the
\* utilization used_MACs / m
Estimator(est, M, m) ==
    CASE est = "utilization" -> (100 * InnerProduct(M)) \div m
      [] est = "throughput" -> (100 * InnerProduct(M)) \div (m * Cycles(M))

SetMax(S) == IF S = {} THEN 0 ELSE CHOOSE s \in S : \A t \in S : t <= s

\* find_mappings(hwb, workload, m, soft, suggested_solution): the list of
\* admissible mappings and the throughput figure; a suggested solution
\* seeds the search, so its score is always included
find_mappings(hwb, w, m, soft, suggested_solution, est) ==
    IF m < 1 THEN [mappings |-> {}, tp |-> 0]
    ELSE LET mappings == {M \in FactorMappings(w) :
                              Admissible(hwb, m, soft, M)}
             seed == IF suggested_solution.given
                     THEN {Estimator(est, suggested_solution.mapping, m)}
                     ELSE {}
         IN [mappings |-> mappings,
             tp |-> SetMax({Estimator(est, M, m) : M \in mappings}
                           \cup seed)]

(***************************************************************************)
(* Simulation of an elaborated module: every bit of a port takes the value *)
(* of its driver; a bit that nothing drives reads 0.                       *)
(***************************************************************************)
BitOf(v, k) == (v \div Pow2(k)) % 2

Slice(v, lo, hi) == (v \div Pow2(lo)) % Pow2(hi - lo)

Drivers(cs, name, idx, k) ==
    {c \in cs : c[2][1] = name /\ c[2][2] = idx /\ c[2][3] <= k /\ k < c[2][4]}

BitValue(cs, inputs, name, idx, k) ==
    LET ds == Drivers(cs, name, idx, k) IN
    IF ds = {} THEN 0
    ELSE LET c == CHOOSE d \in ds : TRUE IN
         IF c[1] = ZERO THEN 0
         ELSE BitOf(inputs[c[1][2]], k - c[2][3] + c[1][3])

RECURSIVE PortValue(_, _, _, _, _)
PortValue(cs, inputs, name, idx, width) ==
    IF width <= 0 THEN 0
    ELSE BitValue(cs, inputs, name, idx, width - 1) * Pow2(width - 1)
         + PortValue(cs, inputs, name, idx, width - 1)

(***************************************************************************)
(* Inputs.                                                                 *)
(***************************************************************************)
Factors == 1 .. MaxFactor

Values ==
    {p \in [AxisNames -> Factors] :
        get_var_product(p, AxisOrder) <= MaxMlbs}

Projection(p, pl) ==
    [URW |-> p["URW"], URN |-> p["URN"], UE |-> p["UE"], UB |-> p["UB"],
     UG |-> p["UG"], PRELOAD |-> pl]

\* an index dictionary over a subset of the axes; -1 stands for an axis
\* that is left out of the dictionary
Restrict(g) == [a \in {b \in AxisNames : g[b] >= 0} |-> g[a]]

MergeArgs ==
    [in_width : 1 .. MaxWidth, num_ins : 1 .. MaxCount + 1,
     out_width : 1 .. MaxWidth, num_outs : 1 .. MaxCount,
     ins_per_out : 0 .. MaxCount]

\* input vectors driven onto the lanes: the ramp 0, 1, 2, ... of the tests,
\* and every vector with a single non-zero lane
MergeInputs(a) ==
    {[i \in 0 .. a.num_ins - 1 |-> i % Pow2(a.in_width)]}
    \cup {[i \in 0 .. a.num_ins - 1 |-> IF i = l THEN v ELSE 0] :
             l \in 0 .. a.num_ins - 1, v \in 1 .. Pow2(a.in_width) - 1}

NoInner == [present |-> FALSE, URW_x |-> 1, UG |-> 1, UE |-> 1, URN |-> 1]

InnerProjections ==
    {NoInner} \cup [present : {TRUE}, URW_x : Factors, UG : {1}, UE : {1},
                    URN : Factors]

WeightRecord(bw, mw, mu, nb, nm, p, nu, ip, dx) ==
    [buffer_width |-> bw, mlb_width |-> mw, mlb_width_used |-> mu,
     num_buffers |-> nb, num_mlbs |-> nm, projection |-> p,
     num_mlbs_used |-> nu, inner_projection |-> ip, dilx |-> dx]

\* the mlb_width argument: left at its default -1, or mlb_width_used +- 1
MlbWidthOption(mu, dw) == IF dw = 0 THEN -1 ELSE mu + dw

(***************************************************************************)
(* Construction: the arguments are stored, nothing is elaborated yet.      *)
(***************************************************************************)
Constructed(k, a) ==
    /\ pc = "constructed"
    /\ kind = k
    /\ args = a
    /\ status = "none"
    /\ ports = {}
    /\ wires = {}
    /\ conns = {}
    /\ ret = -1
    /\ sim_in = << >>
    /\ sim_out = << >>

\* every supplied index is in 0 .. p[axis]: p[axis] itself is out of range
InitIdx ==
    \E p \in Values :
      \E i1 \in -1 .. p["URW"], i2 \in -1 .. p["URN"], i3 \in -1 .. p["UE"],
         i4 \in -1 .. p["UB"], i5 \in -1 .. p["UG"] :
        Constructed("get_overall_idx",
                    [projection |-> Projection(p, << >>),
                     idxs |-> Restrict([URW |-> i1, URN |-> i2, UE |-> i3,
                                        UB |-> i4, UG |-> i5])])

\* a call of utils.get_overall_idx(projection, idxs)
CallGetOverallIdx ==
    /\ pc = "constructed"
    /\ kind = "get_overall_idx"
    /\ pc' = "returned"
    /\ IF OverallIdxAsserts(args.projection, args.idxs)
       THEN /\ status' = "ok"
            /\ ret' = get_overall_idx(args.projection, args.idxs)
       ELSE /\ status' = "AssertionError"
            /\ ret' = -1
    /\ UNCHANGED <<kind, args, ports, wires, conns, sim_in, sim_out>>

InitMerge == \E a \in MergeArgs : Constructed("MergeBusses", a)

\* the result of running construct()
Elaborated(m) ==
    /\ pc' = "elaborated"
    /\ status' = m.status
    /\ ports' = m.ports
    /\ wires' = m.wires
    /\ conns' = m.conns
    /\ UNCHANGED <<kind, args, ret, sim_in, sim_out>>

ElaborateMergeBusses ==
    /\ pc = "constructed"
    /\ kind = "MergeBusses"
    /\ Elaborated(MergeBussesConstruct(args))

\* drive the inputs of an elaborated MergeBusses and read its outputs
SimulateMergeBusses ==
    /\ pc = "elaborated"
    /\ kind = "MergeBusses"
    /\ status = "ok"
    /\ \E inputs \in MergeInputs(args) :
          /\ sim_in' = inputs
          /\ sim_out' = [b \in 0 .. args.num_outs - 1 |->
                           PortValue(conns, inputs, "output_", b, args.out_width)]
    /\ pc' = "simulated"
    /\ UNCHANGED <<kind, args, status, ports, wires, conns, ret>>

NextMerge == ElaborateMergeBusses \/ SimulateMergeBusses

SpecMerge == InitMerge /\ [][NextMerge]_vars

\* streaming: every projection, with or without a PRELOAD list naming I
InitWeightStreaming ==
    \E p \in Values, bw \in 1 .. MaxWidth, mu \in 1 .. MaxWidth,
       dw \in {-1, 0, 1}, nb \in 1 .. MaxCount, dm \in {-1, 0, 1},
       pl \in {<< >>, <<[dtype |-> "I", bus_count |-> 1]>>} :
        /\ get_mlb_count(p) + dm >= 1
        /\ Constructed("WeightInterconnect",
                       WeightRecord(bw, MlbWidthOption(mu, dw), mu, nb,
                                    get_mlb_count(p) + dm, Projection(p, pl),
                                    -1, NoInner, 1))

\* preload: M = num_mlbs_used (or num_mlbs) MLBs on B = num_buffers chains
InitWeightPreload ==
    \E urw \in Factors, nm \in 1 .. MaxMlbs, bw \in 1 .. MaxWidth,
       mu \in 1 .. MaxWidth, dw \in {0, 1}, nb \in 1 .. MaxCount,
       bc \in 1 .. MaxCount, du \in {0, 1} :
        /\ nm - du >= 1
        /\ Constructed("WeightInterconnect",
                       WeightRecord(bw, MlbWidthOption(mu, dw), mu, nb, nm,
                                    [URW |-> urw, URN |-> 1, UE |-> 1, UB |-> 1,
                                     UG |-> 1,
                                     PRELOAD |-> <<[dtype |-> "W",
                                                    bus_count |-> bc]>>],
                                    IF du = 0 THEN -1 ELSE nm - du, NoInner, 1))

\* x-dilation: dilx > 1, with and without an inner projection
InitWeightDilation ==
    \E p \in Values, mu \in 1 .. MaxWidth, ip \in InnerProjections,
       dx \in {2, 3} :
        /\ p["UE"] = 1
        /\ p["UG"] = 1
        /\ Constructed("WeightInterconnect",
                       WeightRecord(MaxWidth, -1, mu, MaxCount, get_mlb_count(p),
                                    Projection(p, << >>), -1, ip, dx))

InitWeight == InitWeightStreaming \/ InitWeightPreload \/ InitWeightDilation

ElaborateWeightInterconnect ==
    /\ pc = "constructed"
    /\ kind = "WeightInterconnect"
    /\ Elaborated(WeightInterconnectConstruct(args))

NextWeight == ElaborateWeightInterconnect

SpecWeight == InitWeight /\ [][NextWeight]_vars

\* every projection; af_width and mlb_width_used that do and do not divide;
\* num_afs and num_mlbs one below, at and one above what is needed; no
\* PS-input buffer, or one or two of them (wide, or too narrow)
InitPS ==
    \E p \in Values, af \in 1 .. MaxWidth, mu \in 1 .. MaxWidth,
       dw \in {-1, 0, 1}, da \in {-1, 0, 1}, dm \in {-1, 0, 1},
       ib \in {<<0, 0>>, <<1, 1>>, <<1, MaxWidth>>, <<2, MaxWidth>>} :
        LET need == p["UG"] * p["UB"] * p["UE"] * (mu \div af) IN
        /\ need + da >= 0
        /\ get_mlb_count(p) + dm >= 1
        /\ Constructed("OutputPSInterconnect",
                       [af_width |-> af, mlb_width |-> MlbWidthOption(mu, dw),
                        mlb_width_used |-> mu, num_afs |-> need + da,
                        num_mlbs |-> get_mlb_count(p) + dm,
                        projection |-> Projection(p, << >>),
                        input_buf_width |-> ib[2], num_input_bufs |-> ib[1]])

ElaborateOutputPSInterconnect ==
    /\ pc = "constructed"
    /\ kind = "OutputPSInterconnect"
    /\ Elaborated(OutputPSInterconnectConstruct(args))

NextPS == ElaborateOutputPSInterconnect

SpecPS == InitPS /\ [][NextPS]_vars

\* the sub-axis y of an axis of value v: 1 (no y unrolling) or v itself
SubAxis(v) == {1, v}

\* inner projections of the input fabric: none, or UG, UB and URN with
\* their y sub-axes
InputNoInner ==
    [present |-> FALSE, UG |-> 1, UB |-> 1, UB_y |-> 1, URN |-> 1, URN_y |-> 1]

InputRecord(bw, mw, mu, nb, nm, p, ip, iw, mx, dy, mb, ag) ==
    [buffer_width |-> bw, mlb_width |-> mw, mlb_width_used |-> mu,
     num_buffers |-> nb, num_mlbs |-> nm, projection |-> p,
     inner_projection |-> ip, inner_width |-> iw, mux_urn |-> mx,
     dily |-> dy, max_bus_width |-> mb, buffer_idxs_agree |-> ag]

InputProjection(p, urn_y, ub_y) ==
    [URW |-> p["URW"], URN |-> p["URN"], UE |-> p["UE"], UB |-> p["UB"],
     UG |-> p["UG"], PRELOAD |-> << >>, URN_y |-> urn_y, UB_y |-> ub_y]

\* no y sub-axes, no muxes: every projection, buffers narrower and wider
\* than a stream, one buffer or several (whose usable width is then what
\* get_max_input_bus_width returns), one MLB too few or too many
InitInputPlain ==
    \E p \in Values, bw \in 1 .. MaxWidth, mu \in 1 .. MaxWidth,
       dw \in {-1, 0, 1}, nb \in 1 .. MaxCount, dm \in {-1, 0, 1},
       mb \in 1 .. MaxWidth :
        /\ get_mlb_count(p) + dm >= 1
        /\ mb <= bw
        /\ nb = 1 => mb = bw
        /\ Constructed("InputInterconnect",
               InputRecord(bw, MlbWidthOption(mu, dw), mu, nb,
                           get_mlb_count(p) + dm, InputProjection(p, 1, 1),
                           InputNoInner, 1, FALSE, 1, mb, TRUE))

\* URN.y / UB.y unrolled in the outer or the inner projection, with and
\* without mux_urn; inner_width divides the widths
InitInputMuxed ==
    \E p \in Values, mx \in BOOLEAN, dy \in {1, 2}, ag \in BOOLEAN,
       nb \in {1, 2}, iw \in {1, 2}, k \in 1 .. MaxWidth, ig \in Factors,
       ib \in Factors, iu \in Factors :
      \E urn_y \in SubAxis(p["URN"]), ub_y \in SubAxis(p["UB"]),
         ib_y \in SubAxis(ib), iu_y \in SubAxis(iu) :
        /\ urn_y * ub_y * ib_y * iu_y > 1
        /\ ig * ib * iu <= MaxWidth
        /\ k * iw <= MaxWidth
        /\ nb = 1 => ag
        /\ Constructed("InputInterconnect",
               InputRecord(k * iw, -1, ig * ib * iu * iw, nb,
                           get_mlb_count(p), InputProjection(p, urn_y, ub_y),
                           [present |-> TRUE, UG |-> ig, UB |-> ib,
                            UB_y |-> ib_y, URN |-> iu, URN_y |-> iu_y],
                           iw, mx, dy, k * iw, ag))

InitInput == InitInputPlain \/ InitInputMuxed

ElaborateInputInterconnect ==
    /\ pc = "constructed"
    /\ kind = "InputInterconnect"
    /\ Elaborated(InputInterconnectConstruct(args))

NextInput == ElaborateInputInterconnect

SpecInput == InitInput /\ [][NextInput]_vars

\* PRELOAD lists of up to two records
PreloadRecords == [dtype : {"W", "I", "O"}, bus_count : 1 .. MaxCount]

PreloadLists ==
    {<< >>} \cup {<<r>> : r \in PreloadRecords}
            \cup {<<r1, r2>> : r1 \in PreloadRecords, r2 \in PreloadRecords}

\* datatype strings "W", "I", "O", "WIO", "" and one with a foreign letter
DtypeStrings == {{"W"}, {"I"}, {"O"}, {"W", "I", "O"}, {}, {"W", "X"}}

InitStreamCount ==
    \E p \in Values, pl \in PreloadLists, dt \in DtypeStrings :
        Constructed("get_proj_stream_count",
                    [projection |-> Projection(p, pl), dtype |-> dt])

\* a call of utils.get_proj_stream_count(projection, dtype)
CallGetProjStreamCount ==
    /\ pc = "constructed"
    /\ kind = "get_proj_stream_count"
    /\ pc' = "returned"
    /\ status' = get_proj_stream_count(args.projection, args.dtype).status
    /\ ret' = get_proj_stream_count(args.projection, args.dtype).value
    /\ UNCHANGED <<kind, args, ports, wires, conns, sim_in, sim_out>>

\* buffer specifications: an address port, a data input and a data output
\* of type DATA (as in the specifications of test_Datapath) or of type
\* DATAOUT, or two DATAOUT ports
BufferSpecs ==
    {<<[type |-> "ADDRESS", direction |-> "in", width |-> 1],
       [type |-> "DATA", direction |-> "in", width |-> w],
       [type |-> t, direction |-> "out", width |-> w]>> :
        w \in 1 .. 2 * MaxWidth, t \in {"DATA", "DATAOUT"}}
    \cup {<<[type |-> "DATAOUT", direction |-> "out", width |-> w],
            [type |-> "DATAOUT", direction |-> "out", width |-> 1]>> :
             w \in 1 .. MaxWidth}

InitBuffersReqd ==
    \E b \in BufferSpecs, c \in 0 .. MaxMlbs, w \in 1 .. MaxWidth + 1 :
        Constructed("get_num_buffers_reqd",
                    [buffer_spec |-> b, stream_count |-> c, stream_width |-> w])

\* a call of utils.get_num_buffers_reqd(buffer_spec, stream_count,
\* stream_width)
CallGetNumBuffersReqd ==
    /\ pc = "constructed"
    /\ kind = "get_num_buffers_reqd"
    /\ pc' = "returned"
    /\ status' = get_num_buffers_reqd(args.buffer_spec, args.stream_count,
                                      args.stream_width).status
    /\ ret' = get_num_buffers_reqd(args.buffer_spec, args.stream_count,
                                   args.stream_width).value
    /\ UNCHANGED <<kind, args, ports, wires, conns, sim_in, sim_out>>

InitCounts == InitStreamCount \/ InitBuffersReqd

NextCounts == CallGetProjStreamCount \/ CallGetNumBuffersReqd

SpecCounts == InitCounts /\ [][NextCounts]_vars

\* block specifications of two ports A and B of any type, direction and
\* width
HwbPortTypes ==
    {"C", "ADDRESS", "WEN", "W_EN", "I_EN", "ACC_EN", "MODE", "DATA",
     "CLK", "RESET"}

HwbPortRecords(n) ==
    [name : {n}, width : 1 .. 2, direction : {"in", "out"},
     type : HwbPortTypes]

InitHwb ==
    \E pa \in HwbPortRecords("A"), pb \in HwbPortRecords("B"),
       c \in 1 .. MaxCount :
        Constructed("HWB_Wrapper",
                    [spec |-> [ports |-> <<pa, pb>>], count |-> c])

ElaborateHWBWrapper ==
    /\ pc = "constructed"
    /\ kind = "HWB_Wrapper"
    /\ Elaborated(HWB_WrapperConstruct(args))

NextHwb == ElaborateHWBWrapper

SpecHwb == InitHwb /\ [][NextHwb]_vars

\* possible_projections: every bound up to MaxFactor, UG up to
\* MaxFactor * MaxFactor
SpecKeys ==
    {[URW |-> p.URW, URN |-> p.URN, UE |-> p.UE, UB |-> p.UB, UG |-> g] :
        p \in Values, g \in 1 .. MaxFactor * MaxFactor}

\* inner projections: values only; or with the sub-axes of URW, URN and
\* UB; or URN with chans but without y
InnerWithSubAxes(p, form) ==
    CASE form = "values" ->
           [k \in AxisNames |-> [value |-> p[k]]]
      [] form = "subaxes" ->
           [URW |-> [value |-> p.URW, x |-> p.URW, y |-> 1],
            URN |-> [value |-> p.URN, chans |-> p.URN, y |-> 1],
            UE |-> [value |-> p.UE],
            UB |-> [value |-> p.UB, batches |-> p.UB, y |-> 1],
            UG |-> [value |-> p.UG]]
      [] form = "chans" ->
           [URW |-> [value |-> p.URW],
            URN |-> [value |-> p.URN, chans |-> p.URN],
            UE |-> [value |-> p.UE],
            UB |-> [value |-> p.UB],
            UG |-> [value |-> p.UG]]

InitRewrite ==
    \E sk \in SpecKeys, p \in Values,
       form \in {"values", "subaxes", "chans"} :
        Constructed("MLB_Wrapper",
                    [spec_keys |-> sk, ip |-> InnerWithSubAxes(p, form)])

\* MLB_Wrapper.construct on a block with possible_projections, up to the
\* rewriting of its inner projection
RewriteInnerProjection ==
    /\ pc = "constructed"
    /\ kind = "MLB_Wrapper"
    /\ pc' = "returned"
    /\ status' = MLB_WrapperRewrite(args).status
    /\ ret' = MLB_WrapperRewrite(args).copy_projs
    /\ args' = [args EXCEPT !.ip = MLB_WrapperRewrite(args).projs]
    /\ UNCHANGED <<kind, ports, wires, conns, sim_in, sim_out>>

NextRewrite == RewriteInnerProjection

SpecRewrite == InitRewrite /\ [][NextRewrite]_vars

\* workloads of at most MaxMlbs multiply-accumulates
Workloads ==
    {w \in [WorkloadAxisSet -> Factors] :
        get_var_product(w, WorkloadAxes) <= MaxMlbs}

\* a mapping that covers one step more than the workload along E
PaddedE(M) == [M EXCEPT !.E = [@ EXCEPT !.T = @ + 1]]

\* the factorizations without outer factors
SuggestedMappings(w) ==
    {M \in FactorMappings(w) : \A A \in WorkloadAxisSet : M[A].O = 1}

\* no suggested solution, a factorization of the workload, or one that
\* covers more than the workload (as the suggested solution of
\* test_suggested does along E: 6 * 3 * 2 = 36 for E = 32)
Suggestions(w) ==
    {[given |-> FALSE, mapping |-> << >>]}
    \cup {[given |-> TRUE, mapping |-> M] : M \in SuggestedMappings(w)}
    \cup {[given |-> TRUE, mapping |-> PaddedE(M)] :
             M \in SuggestedMappings(w)}

Hwbs == {[unserved |-> u] : u \in {{}, {"E", "RX"}}}

InitFindMappings ==
    \E w \in Workloads, m \in 0 .. MaxCount, soft \in BOOLEAN,
       hwb \in Hwbs,
       est \in {"utilization", "throughput"} :
        \E s \in Suggestions(w) :
            Constructed("find_mappings",
                        [hwb |-> hwb, workload |-> w, m |-> m, soft |-> soft,
                         suggested_solution |-> s, estimator |-> est])

\* a call of constraint_evaluation.find_mappings
CallFindMappings ==
    /\ pc = "constructed"
    /\ kind = "find_mappings"
    /\ pc' = "returned"
    /\ status' = "ok"
    /\ ret' = find_mappings(args.hwb, args.workload, args.m, args.soft,
                            args.suggested_solution, args.estimator)
    /\ UNCHANGED <<kind, args, ports, wires, conns, sim_in, sim_out>>

NextFindMappings == CallFindMappings

SpecFindMappings == InitFindMappings /\ [][NextFindMappings]_vars

\* the three per-MLB fabrics of a datapath, built from the same family of
\* projections (InputInterconnect without y sub-axes)
InitFabrics == InitWeight \/ InitInputPlain \/ InitPS

NextFabrics ==
    \/ ElaborateWeightInterconnect
    \/ ElaborateInputInterconnect
    \/ ElaborateOutputPSInterconnect

SpecFabrics == InitFabrics /\ [][NextFabrics]_vars

NextIdx == CallGetOverallIdx

SpecIdx == InitIdx /\ [][NextIdx]_vars

(***************************************************************************)
(* Datapath.construct up to its hardware-support check                     *)
(* (module_classes.py:1251-1289).  proj_specs is a sequence of records     *)
(* [inner_projection, stream_info]; mlb_spec has MAC_info.num_units and    *)
(* its ports.                                                               *)
(***************************************************************************)
MAC_datatypes == <<"W", "I", "O">>

\* module_classes.py:1259
MAC_counts(proj_specs) ==
    [i \in 1 .. Len(proj_specs) |-> get_mlb_count(proj_specs[i].inner_projection)]

\* module_classes.py:1260-1267  inner_bus_widths[dtype][i]
inner_bus_widths(proj_specs, dtype, i) ==
    get_proj_stream_count(proj_specs[i].inner_projection, {dtype}).value
        * proj_specs[i].stream_info[dtype]

\* module_classes.py:1268  the loop runs over zip(proj_specs, MAC_counts,
\* inner_bus_counts, inner_data_widths, inner_bus_widths), the last three
\* being dictionaries keyed by the three datatypes: it ends with the
\* shortest, and leaves its variables at the values of its last iteration
ZipIterations(proj_specs) == Min(Len(proj_specs), Len(MAC_datatypes))

\* module_classes.py:1281-1285  (the warning of lines 1286-1288 changes
\* nothing).  value: the MAC_count the assertion compared.
DatapathSupportCheck(a) ==
    LET n == ZipIterations(a.proj_specs)
        MAC_count == MAC_counts(a.proj_specs)[n]
    IN IF n = 0 THEN [status |-> "UnboundLocalError", value |-> -1]
       ELSE IF ~(MAC_count <= a.mlb_spec.MAC_info.num_units)
       THEN [status |-> "AssertionError", value |-> MAC_count]
       ELSE IF \E k \in 1 .. Len(MAC_datatypes), i \in 1 .. Len(a.proj_specs) :
                   ~(inner_bus_widths(a.proj_specs, MAC_datatypes[k], i)
                        <= get_sum_datatype_width(a.mlb_spec.ports,
                               MAC_datatypes[k], {"in", "out"}))
       THEN [status |-> "AssertionError", value |-> MAC_count]
       ELSE [status |-> "ok", value |-> MAC_count]

\* inner projections that unroll URW and UE, streams one bit wide
DatapathProjSpecs ==
    {[inner_projection |-> Projection(p, << >>),
      stream_info |-> [W |-> 1, I |-> 1, O |-> 1]] :
        p \in {v \in Values : /\ v["URN"] = 1 /\ v["UB"] = 1 /\ v["UG"] = 1
                              /\ v["UE"] \in {1, MaxFactor}}}

\* an MLB with one port of each datatype, all w bits wide
DatapathMlbSpec(num_units, w) ==
    [MAC_info |-> [num_units |-> num_units],
     ports |-> <<[type |-> "W", direction |-> "in", width |-> w],
                 [type |-> "I", direction |-> "in", width |-> w],
                 [type |-> "O", direction |-> "out", width |-> w]>>]

\* lists of up to MaxCount + 1 projections (more than the three datatypes),
\* MLBs of 1 .. MaxFactor units, ports as wide as one stream or as every
\* stream of a projection
InitDatapath ==
    \E n \in 0 .. MaxCount + 1, nu \in Factors, w \in {1, MaxMlbs} :
      \E ps \in [1 .. n -> DatapathProjSpecs] :
        Constructed("Datapath",
                    [proj_specs |-> ps, mlb_spec |-> DatapathMlbSpec(nu, w)])

\* Datapath.construct up to the end of its hardware-support check
ElaborateDatapathCheck ==
    /\ pc = "constructed"
    /\ kind = "Datapath"
    /\ pc' = "returned"
    /\ status' = DatapathSupportCheck(args).status
    /\ ret' = DatapathSupportCheck(args).value
    /\ UNCHANGED <<kind, args, ports, wires, conns, sim_in, sim_out>>

NextDatapath == ElaborateDatapathCheck

SpecDatapath == InitDatapath /\ [][NextDatapath]_vars

(***************************************************************************)
(* utils.connect_ports_by_name (utils.py:305-344).  A port name is a pair  *)
(* <<prefix, i>> for the text prefix_i, the prefix a sequence of letters;  *)
(* inst1 is given by its output ports, inst2 by its input ports.  The      *)
(* value-port sets of an instance are iterated in an order the caller      *)
(* does not control.  Port widths are taken to agree.                      *)
(***************************************************************************)
\* re.search(name + r"_(\d+)$", portname): the pattern is anchored at the end
\* of the port name only, so it is found in every name that ends with it
NameFound(name, port) ==
    /\ Len(name) <= Len(port[1])
    /\ SubSeq(port[1], Len(port[1]) - Len(name) + 1, Len(port[1])) = name

\* the orders in which a set of ports may be iterated
IterationOrders(S) ==
    {o \in [1 .. Cardinality(S) -> S] :
        \A i, j \in 1 .. Cardinality(S) : o[i] = o[j] => i = j}

\* utils.py:324-329  match_dict[str(i * factor1)] = port, a later port
\* replacing an earlier one under the same key
RECURSIVE MatchDictLoop(_, _, _, _, _)
MatchDictLoop(order, name1, factor1, k, match_dict) ==
    IF k > Len(order) THEN match_dict
    ELSE LET port == order[k]
             key == port[2] * factor1
         IN MatchDictLoop(order, name1, factor1, k + 1,
                IF NameFound(name1, port)
                THEN [x \in DOMAIN match_dict \cup {key} |->
                         IF x = key THEN port ELSE match_dict[x]]
                ELSE match_dict)

\* utils.py:333-341  st = [status, match_dict, conns, connected_ins]
RECURSIVE ConnectInputsLoop(_, _, _, _, _)
ConnectInputsLoop(order, name2, factor2, k, st) ==
    IF k > Len(order) \/ st.status # "ok" THEN st
    ELSE LET port == order[k]
             key == port[2] * factor2
         IN ConnectInputsLoop(order, name2, factor2, k + 1,
                IF ~NameFound(name2, port) THEN st
                ELSE IF key \notin DOMAIN st.match_dict
                THEN [st EXCEPT !.status = "AssertionError"]
                ELSE [status |-> "ok",
                      match_dict |-> [x \in DOMAIN st.match_dict \ {key} |->
                                         st.match_dict[x]],
                      conns |-> st.conns \cup {<<st.match_dict[key], port>>},
                      connected_ins |-> Append(st.connected_ins, port)])

connect_ports_by_name(a, order1, order2) ==
    LET match_dict == MatchDictLoop(order1, a.name1, a.factor1, 1, << >>)
        st0 == [status |-> "ok", match_dict |-> match_dict, conns |-> {},
                connected_ins |-> << >>]
        st == ConnectInputsLoop(order2, a.name2, a.factor2, 1, st0)
    IN IF ~(Cardinality(DOMAIN match_dict) > 0)
       THEN [st0 EXCEPT !.status = "AssertionError"]
       ELSE IF st.status # "ok" THEN st
       ELSE IF ~(Cardinality(DOMAIN st.match_dict) = 0)
       THEN [st EXCEPT !.status = "AssertionError"]
       ELSE st

\* ports a_i and ba_i, c_j and dc_j, at most MaxCount - 1 on a side
PortSets(prefixes) ==
    {S \in SUBSET (prefixes \X (0 .. MaxFactor)) : Cardinality(S) < MaxCount}

InitConnectByName ==
    \E outs \in PortSets({<<"a">>, <<"b", "a">>}),
       ins \in PortSets({<<"c">>, <<"d", "c">>}),
       f1 \in Factors, f2 \in Factors :
        Constructed("connect_ports_by_name",
                    [inst1 |-> outs, name1 |-> <<"a">>, inst2 |-> ins,
                     name2 |-> <<"c">>, factor1 |-> f1, factor2 |-> f2])

\* a call of utils.connect_ports_by_name(inst1, name1, inst2, name2, factor1,
\* factor2)
CallConnectPortsByName ==
    /\ pc = "constructed"
    /\ kind = "connect_ports_by_name"
    /\ \E order1 \in IterationOrders(args.inst1),
          order2 \in IterationOrders(args.inst2) :
          LET r == connect_ports_by_name(args, order1, order2)
          IN /\ status' = r.status
             /\ conns' = r.conns
             /\ ret' = r.connected_ins
    /\ pc' = "returned"
    /\ UNCHANGED <<kind, args, ports, wires, sim_in, sim_out>>

NextConnectByName == CallConnectPortsByName

SpecConnectByName == InitConnectByName /\ [][NextConnectByName]_vars

(***************************************************************************)
(* A component under construction: any sequence of at most MaxCount calls  *)
(* of AddInPort, AddOutPort, add_n_inputs and add_n_outputs on one module  *)
(* (utils.py:177-213, 246-280).  args records the latest call, ret what it *)
(* returned (the port; -1 for the functions that return nothing).          *)
(***************************************************************************)
CurrentModule ==
    [status |-> status, ports |-> ports, wires |-> wires, conns |-> conns]

\* getattr(s, newname) after the call
PortNamed(m, name, idx) == CHOOSE q \in m.ports : q[2] = name /\ q[3] = idx

InitPortCalls == Constructed("Component", [calls |-> 0, fn |-> "none"])

\* the module after a call, and the record of the call
Called(m, call, value) ==
    /\ pc' = "constructed"
    /\ status' = m.status
    /\ ports' = m.ports
    /\ wires' = m.wires
    /\ conns' = m.conns
    /\ args' = [call EXCEPT !.calls = args.calls + 1]
    /\ ret' = value
    /\ UNCHANGED <<kind, sim_in, sim_out>>

CallAddInPort ==
    /\ pc = "constructed" /\ kind = "Component" /\ args.calls < MaxCount
    /\ \E width \in {1, MaxWidth}, idx \in 0 .. 1 :
          LET m == AddInPort(CurrentModule, width, "p_", idx)
          IN Called(m, [calls |-> 0, fn |-> "AddInPort", width |-> width,
                        idx |-> idx],
                    PortNamed(m, "p_", idx))

CallAddOutPort ==
    /\ pc = "constructed" /\ kind = "Component" /\ args.calls < MaxCount
    /\ \E width \in {1, MaxWidth}, idx \in 0 .. 1 :
          LET m == AddOutPort(CurrentModule, width, "p_", idx)
          IN Called(m, [calls |-> 0, fn |-> "AddOutPort", width |-> width,
                        idx |-> idx],
                    PortNamed(m, "p_", idx))

CallAddNInputs ==
    /\ pc = "constructed" /\ kind = "Component" /\ args.calls < MaxCount
    /\ \E width \in {1, MaxWidth}, n \in Factors, start_idx \in 0 .. 1 :
          Called(add_n_inputs(CurrentModule, n, width, "p_", start_idx),
                 [calls |-> 0, fn |-> "add_n_inputs", width |-> width,
                  n |-> n, idx |-> start_idx], -1)

CallAddNOutputs ==
    /\ pc = "constructed" /\ kind = "Component" /\ args.calls < MaxCount
    /\ \E width \in {1, MaxWidth}, n \in Factors, start_idx \in 0 .. 1 :
          Called(add_n_outputs(CurrentModule, n, width, "p_", start_idx),
                 [calls |-> 0, fn |-> "add_n_outputs", width |-> width,
                  n |-> n, idx |-> start_idx], -1)

NextPortCalls ==
    \/ CallAddInPort
    \/ CallAddOutPort
    \/ CallAddNInputs
    \/ CallAddNOutputs

SpecPortCalls == InitPortCalls /\ [][NextPortCalls]_vars

(***************************************************************************)
(* The whole program: any of the components, elaborated once.              *)
(***************************************************************************)
Init ==
    \/ InitIdx
    \/ InitMerge
    \/ InitWeight
    \/ InitPS
    \/ InitInput
    \/ InitCounts
    \/ InitHwb
    \/ InitRewrite
    \/ InitFindMappings
    \/ InitDatapath
    \/ InitConnectByName
    \/ InitPortCalls

Next ==
    \/ CallGetOverallIdx
    \/ ElaborateMergeBusses
    \/ SimulateMergeBusses
    \/ ElaborateWeightInterconnect
    \/ ElaborateOutputPSInterconnect
    \/ ElaborateInputInterconnect
    \/ CallGetProjStreamCount
    \/ CallGetNumBuffersReqd
    \/ ElaborateHWBWrapper
    \/ RewriteInnerProjection
    \/ CallFindMappings
    \/ ElaborateDatapathCheck
    \/ CallConnectPortsByName
    \/ CallAddInPort
    \/ CallAddOutPort
    \/ CallAddNInputs
    \/ CallAddNOutputs

Spec == Init /\ [][Next]_vars

(***************************************************************************)
(* Claims on get_overall_idx.                                              *)
(***************************************************************************)
FullIdxReturned ==
    /\ pc = "returned"
    /\ kind = "get_overall_idx"
    /\ status = "ok"
    /\ DOMAIN args.idxs = AxisNames

\* C1 (as stated): for a full in-range index tuple get_overall_idx is the
\* mixed-radix encoding in the order URW (innermost), URN, UB, UE, UG:
\* urw + URW*(urn + URN*(ub + UB*(ue + UE*ug))).
C1_StatedOrder ==
    FullIdxReturned =>
        LET p == args.projection
            i == args.idxs
        IN ret = i["URW"] + p.URW * (i["URN"] + p.URN * (i["UB"] + p.UB *
                     (i["UE"] + p.UE * i["UG"])))

\* C1 (amended): for a full in-range index tuple get_overall_idx is the
\* mixed-radix encoding in the order URW (innermost), URN, UE, UB, UG:
\* urw + URW*(urn + URN*(ue + UE*(ub + UB*ug))).
C1_CodeOrder ==
    FullIdxReturned =>
        LET p == args.projection
            i == args.idxs
        IN ret = i["URW"] + p.URW * (i["URN"] + p.URN * (i["UE"] + p.UE *
                     (i["UB"] + p.UB * i["UG"])))

\* a full index tuple on which the two radix orders disagree
C1_Witness ==
    /\ FullIdxReturned
    /\ args.projection.UB > 1
    /\ args.projection.UE > 1
    /\ args.idxs["UB"] = 1
    /\ args.idxs["UE"] = 0
    /\ ret > 0

(***************************************************************************)
(* Claims on MergeBusses.                                                  *)
(***************************************************************************)
MergeElaborated ==
    /\ pc \in {"elaborated", "simulated"}
    /\ kind = "MergeBusses"

\* the connections that are not ties to zero
LaneConns == {c \in conns : c[1] # ZERO}

\* lane inp wired as the contract says
MergeLaneConn(a, inp) ==
    LET ipo == IF a.ins_per_out = 0 THEN a.out_width \div a.in_width
               ELSE a.ins_per_out
    IN <<<<"input_", inp, 0, a.in_width>>,
         <<"output_", inp \div ipo, (inp % ipo) * a.in_width,
           ((inp % ipo) + 1) * a.in_width>>>>

MergeDensity(a) ==
    IF a.ins_per_out = 0 THEN a.out_width \div a.in_width ELSE a.ins_per_out

MergeLanesWired(a) ==
    IF MergeDensity(a) * a.num_outs < a.num_ins
    THEN MergeDensity(a) * a.num_outs ELSE a.num_ins

C6_EveryBitDriven ==
    (MergeElaborated /\ status = "ok") =>
        \A b \in 0 .. args.num_outs - 1 : \A k \in 0 .. args.out_width - 1 :
            Cardinality(Drivers(conns, "output_", b, k)) = 1

\* C7: slicing the simulated output buses at stride in_width gives back the
\* first min(ins_per_out*num_outs, num_ins) lanes in order, lane i from slot
\* i mod ins_per_out of bus i div ins_per_out.
C7_RoundTrip ==
    (pc = "simulated" /\ kind = "MergeBusses") =>
        \A i \in 0 .. MergeLanesWired(args) - 1 :
            LET ipo == MergeDensity(args)
                slot == i % ipo
            IN Slice(sim_out[i \div ipo], slot * args.in_width,
                     (slot + 1) * args.in_width) = sim_in[i]

\* a ramp read back from two buses, two lanes to a bus
C7_Witness ==
    /\ pc = "simulated"
    /\ kind = "MergeBusses"
    /\ MergeDensity(args) = 2
    /\ MergeLanesWired(args) >= 4
    /\ args.in_width = 2
    /\ sim_in[3] = 3
    /\ sim_in[1] = 1
    /\ sim_out[1] >= 12

\* C8 (as stated): elaboration fails with an assertion error when
\* ins_per_out * num_outs < num_ins.
C8_NotEnoughOutputsFails ==
    (MergeElaborated /\ MergeDensity(args) >= 1
       /\ MergeDensity(args) * args.num_outs < args.num_ins)
        => status = "AssertionError"

\* C9 (as stated): elaboration fails with an assertion error whenever the
\* packing density does not fit the output bus: the effective ins_per_out
\* is below 1, or a supplied ins_per_out has ins_per_out*in_width > out_width.
C9_DensityMisfitFails ==
    (MergeElaborated
       /\ (MergeDensity(args) < 1
            \/ (args.ins_per_out > 0
                /\ args.ins_per_out * args.in_width > args.out_width)))
        => status = "AssertionError"

(***************************************************************************)
(* Claims on WeightInterconnect.                                           *)
(***************************************************************************)
WeightElaborated == pc = "elaborated" /\ kind = "WeightInterconnect"

NamesW(p) == \E k \in 1 .. Len(p.PRELOAD) : p.PRELOAD[k].dtype = "W"

WeightStreaming ==
    /\ WeightElaborated
    /\ status = "ok"
    /\ ~NamesW(args.projection)
    /\ args.dilx = 1

\* the MLB positions (urw, urn, ub, ue, ug) of a projection
Positions(p) ==
    [URW : 0 .. p.URW - 1, URN : 0 .. p.URN - 1, UB : 0 .. p.UB - 1,
     UE : 0 .. p.UE - 1, UG : 0 .. p.UG - 1]

\* the MLB index of a position and its weight stream index, in the radix
\* order URW, URN, UE, UB, UG
MlbIdx(p, q) ==
    q.URW + p.URW * (q.URN + p.URN * (q.UE + p.UE * (q.UB + p.UB * q.UG)))

WeightStreamIdx(p, q) == q.URW + p.URW * (q.URN + p.URN * (q.UE + p.UE * q.UG))

\* the connections that drive bits of outputs_to_mlb_k
MlbDrivers(k) == {c \in conns : c[2][1] = "outputs_to_mlb_" /\ c[2][2] = k}

\* C2: in a streaming WeightInterconnect bits [0, mlb_width_used) of
\* outputs_to_mlb_k, k the MLB index of position (urw, urn, ub, ue, ug), are
\* driven by bits [section*mlb_width_used, (section+1)*mlb_width_used) of
\* inputs_from_buffer_b, b = stream_idx div streams_per_buffer, section =
\* stream_idx mod streams_per_buffer, stream_idx over {URW, URN, UE, UG}; two
\* positions that differ only in UB read the same buffer slice.
C2_StreamingWiring ==
    WeightStreaming =>
        LET p == args.projection
            used == args.mlb_width_used
            spb == args.buffer_width \div used
        IN /\ \A q \in Positions(p) :
                 LET stream_idx == WeightStreamIdx(p, q)
                     section == stream_idx % spb
                 IN MlbDrivers(MlbIdx(p, q)) =
                        {<<<<"inputs_from_buffer_", stream_idx \div spb,
                             section * used, (section + 1) * used>>,
                           <<"outputs_to_mlb_", MlbIdx(p, q), 0, used>>>>}
           /\ \A q1, q2 \in Positions(p) :
                 (\A x \in AxisNames \ {"UB"} : q1[x] = q2[x]) =>
                     \A c1 \in MlbDrivers(MlbIdx(p, q1)) :
                         \A c2 \in MlbDrivers(MlbIdx(p, q2)) : c1[1] = c2[1]

\* UB and UE unrolled, several streams to a buffer, more than one buffer
C2_Witness ==
    /\ WeightStreaming
    /\ args.projection.UB = 2
    /\ args.projection.UE = 2
    /\ args.buffer_width \div args.mlb_width_used = 2
    /\ \E c \in conns : /\ c[1][1] = "inputs_from_buffer_"
                         /\ c[1][2] = 1
                         /\ c[1][3] > 0
                         /\ c[2][1] = "outputs_to_mlb_"
                         /\ c[2][2] = 7

WeightFailureCase(a) ==
    LET used == a.mlb_width_used
        spb == a.buffer_width \div used
        p == a.projection
    IN \/ a.mlb_width >= 0 /\ used > a.mlb_width
       \/ spb = 0
       \/ a.num_mlbs < p.URW * p.URN * p.UB * p.UE * p.UG
       \/ /\ ~NamesW(p)
          /\ spb > 0
          /\ a.num_buffers * spb < p.URW * p.URN * p.UE * p.UG
       \/ /\ NamesW(p)
          /\ \E k \in 1 .. Len(p.PRELOAD) :
                /\ p.PRELOAD[k].dtype = "W"
                /\ used * p.PRELOAD[k].bus_count > a.num_buffers * a.buffer_width

\* C3: WeightInterconnect elaboration ends in an assertion error, with no
\* wiring, when mlb_width_used exceeds the given mlb_width, when the buffer
\* is narrower than mlb_width_used, when num_mlbs is below URW*URN*UB*UE*UG,
\* in streaming mode when num_buffers is below
\* ceil(URW*URN*UE*UG / streams_per_buffer), and in preload mode when
\* mlb_width_used * preload_bus_count exceeds num_buffers * buffer_width.
C3_FailureCases ==
    (WeightElaborated /\ WeightFailureCase(args)) =>
        (status = "AssertionError" /\ conns = {})

\* the preload budget is exceeded and nothing else is wrong
C3_Witness ==
    /\ WeightElaborated
    /\ NamesW(args.projection)
    /\ args.mlb_width_used <= args.buffer_width
    /\ args.mlb_width < 0
    /\ args.num_mlbs >= get_mlb_count(args.projection)
    /\ args.num_buffers = 2
    /\ args.mlb_width_used * args.projection.PRELOAD[1].bus_count
          > args.num_buffers * args.buffer_width
    /\ status = "AssertionError"
    /\ ports # {}

\* the heads of the chains (fed from a buffer slice) and the chain of a head
ChainHeads ==
    {c[2][2] : c \in {d \in conns : d[1][1] = "inputs_from_buffer_"
                                      /\ d[2][1] = "outputs_to_mlb_"}}

Linked(i, j) ==
    \E c \in conns : /\ c[1][1] = "inputs_from_mlb_" /\ c[1][2] = i
                     /\ c[2][1] = "outputs_to_mlb_" /\ c[2][2] = j

ChainMembers(h) ==
    {k \in h .. h + MaxMlbs + 1 : \A j \in h .. k - 1 : Linked(j, j + 1)}

\* C4 (as stated): with PRELOAD naming W, M used MLBs and B buffers, every
\* MLB index in [0, M) is on exactly one chain, the chains are pairwise
\* disjoint and every chain has length ceil(M/B) or ceil(M/B) - 1.
C4_BalancedChains ==
    (WeightElaborated /\ status = "ok" /\ NamesW(args.projection)) =>
        LET M == IF args.num_mlbs_used < 0 THEN args.num_mlbs
                 ELSE args.num_mlbs_used
            B == args.num_buffers
            L == (M + B - 1) \div B
        IN /\ \A i \in 0 .. M - 1 :
                 Cardinality({h \in ChainHeads : i \in ChainMembers(h)}) = 1
           /\ \A h1, h2 \in ChainHeads :
                 h1 # h2 => ChainMembers(h1) \cap ChainMembers(h2) = {}
           /\ \A h \in ChainHeads :
                 Cardinality(ChainMembers(h)) \in {L, L - 1}

(***************************************************************************)
(* Claims on OutputPSInterconnect.                                         *)
(***************************************************************************)
PSElaborated == pc = "elaborated" /\ kind = "OutputPSInterconnect"

\* the arguments pass every assertion of construct
PSAdmissible(a) ==
    LET p == a.projection IN
    /\ (a.mlb_width < 0 \/ a.mlb_width_used <= a.mlb_width)
    /\ a.mlb_width_used % a.af_width = 0
    /\ a.num_mlbs >= p.URW * p.URN * p.UB * p.UE * p.UG
    /\ a.num_afs >= p.UG * p.UB * p.UE * (a.mlb_width_used \div a.af_width)

\* the chain index of (ub, ue, ug), in the radix order UE, UB, UG
PSChainIdx(p, ub, ue, ug) == ue + p.UE * (ub + p.UB * ug)

\* the wiring of C10 for the chain of (ub, ue, ug)
PSChainWired(a, ub, ue, ug) ==
    LET p == a.projection
        w == IF a.mlb_width < 0 THEN a.mlb_width_used ELSE a.mlb_width
        chain_idx == PSChainIdx(p, ub, ue, ug)
        first == chain_idx * p.URW * p.URN
        last == first + p.URW * p.URN - 1
    IN /\ \A i \in first .. last - 1 :
             <<<<"inputs_from_mlb_", i, 0, w>>,
               <<"outputs_to_mlb_", i + 1, 0, w>>>> \in conns
       /\ <<ZERO, <<"outputs_to_mlb_", first, 0, a.mlb_width_used>>>> \in conns
       /\ \A part \in 0 .. (a.mlb_width_used \div a.af_width) - 1 :
             <<<<"inputs_from_mlb_", last, part * a.af_width,
                 (part + 1) * a.af_width>>,
               <<"outputs_to_afs_",
                 chain_idx * (a.mlb_width_used \div a.af_width) + part,
                 0, a.af_width>>>> \in conns

\* C10 (as stated): OutputPSInterconnect elaborates, and for every
\* (ub, ue, ug) the chain chain_idx consists of the MLBs chain_idx*URW*URN ..
\* chain_idx*URW*URN + URW*URN - 1, the partial sum is forwarded from MLB i
\* to MLB i+1, with num_input_bufs = 0 the head is tied to zero on bits
\* [0, mlb_width_used), and outputs_to_afs_j, j = chain_idx*acts_per_stream +
\* part, carries bits [part*af_width, (part+1)*af_width) of the tail.
C10_ChainsWired ==
    (PSElaborated /\ PSAdmissible(args) /\ args.num_input_bufs = 0) =>
        /\ status = "ok"
        /\ \A ub \in 0 .. args.projection.UB - 1 :
             \A ue \in 0 .. args.projection.UE - 1 :
               \A ug \in 0 .. args.projection.UG - 1 :
                 PSChainWired(args, ub, ue, ug)

\* the connections that drive bits of outputs_to_afs_j
AfDrivers(j) == {c \in conns : c[2][1] = "outputs_to_afs_" /\ c[2][2] = j}

\* C11: OutputPSInterconnect elaboration fails an assertion, before any
\* wiring, unless af_width divides mlb_width_used, mlb_width_used <= mlb_width,
\* num_mlbs >= URW*URN*UB*UE*UG and num_afs >= UG*UB*UE*acts_per_stream; and
\* every outputs_to_afs_j that is wired has j < num_afs and a single driver
\* (so no two chains drive the same activation input).
C11_PSConstraints ==
    PSElaborated =>
        /\ ~PSAdmissible(args) => (status = "AssertionError" /\ conns = {})
        /\ \A c \in conns :
              c[2][1] = "outputs_to_afs_" =>
                  /\ c[2][2] >= 0
                  /\ c[2][2] < args.num_afs
                  /\ AfDrivers(c[2][2]) = {c}

\* one activation unit short, everything else in order
C11_Witness ==
    /\ PSElaborated
    /\ args.mlb_width_used % args.af_width = 0
    /\ args.mlb_width < 0
    /\ args.num_mlbs >= get_mlb_count(args.projection)
    /\ args.projection.UB * args.projection.UE > 1
    /\ args.num_afs + 1 = args.projection.UG * args.projection.UB
                             * args.projection.UE
                             * (args.mlb_width_used \div args.af_width)
    /\ status = "AssertionError"

\* several chains, each sliced into two activation inputs
C11_WiredWitness ==
    /\ PSElaborated
    /\ PSAdmissible(args)
    /\ args.mlb_width_used \div args.af_width = 2
    /\ \E c \in conns : c[2][1] = "outputs_to_afs_" /\ c[2][2] = 3

(***************************************************************************)
(* Claims on InputInterconnect.                                            *)
(***************************************************************************)
InputElaborated == pc = "elaborated" /\ kind = "InputInterconnect"

\* the chains of a projection: (urn, ub, ue, ug)
InputChains(p) ==
    [URN : 0 .. p.URN - 1, UB : 0 .. p.UB - 1, UE : 0 .. p.UE - 1,
     UG : 0 .. p.UG - 1]

\* the chain index in the radix order URN, UE, UB, UG, and the head's index
InputChainIdx(p, q) == q.URN + p.URN * (q.UE + p.UE * (q.UB + p.UB * q.UG))

InputHead(p, q) == InputChainIdx(p, q) * p.URW

DriverBits(name, idx, i) ==
    {<<c[1][1], c[1][2], IF c[1] = ZERO THEN 0 ELSE c[1][3] + (i - c[2][3])>> :
        c \in {d \in conns : /\ d[2][1] = name /\ d[2][2] = idx
                             /\ d[2][3] <= i /\ i < d[2][4]}}

InputPlain ==
    /\ InputElaborated
    /\ status = "ok"
    /\ args.projection.URN_y = 1
    /\ args.projection.UB_y = 1
    /\ args.inner_projection.URN_y = 1
    /\ args.inner_projection.UB_y = 1

\* the input stream of a chain is determined by (URN, UB, UG) only
InputStreamIdx(p, q) == q.URN + p.URN * (q.UB + p.UB * q.UG)

\* bit i of stream s in the buffers: several streams side by side in a wide
\* buffer, or one stream spread over consecutive narrow buffers
InputStreamBit(a, s, i) ==
    LET bw == IF a.num_buffers > 1 THEN a.max_bus_width ELSE a.buffer_width
        mu == a.mlb_width_used
    IN IF bw > mu
       THEN <<"inputs_from_buffer_", s \div (bw \div mu),
              (s % (bw \div mu)) * mu + i>>
       ELSE <<"inputs_from_buffer_", s * ((mu + bw - 1) \div bw) + i \div bw,
              i % bw>>

StreamCountReturned == pc = "returned" /\ kind = "get_proj_stream_count"

\* the PRELOAD records of datatype t, by position
RecordsOf(p, t) == {k \in 1 .. Len(p.PRELOAD) : p.PRELOAD[k].dtype = t}

\* C14: get_proj_stream_count(p, T) for a single datatype T returns the
\* bus_count of the PRELOAD record with dtype T if there is one (of the last
\* one if there are several), and otherwise URW*URN*UE*UG for W, URN*UB*UG
\* for I and UE*UB*UG for O.
C14_StreamCount ==
    (StreamCountReturned /\ args.dtype \in {{"W"}, {"I"}, {"O"}}) =>
        LET p == args.projection
            T == CHOOSE t \in args.dtype : TRUE
            recs == RecordsOf(p, T)
        IN /\ status = "ok"
           /\ recs # {} =>
                 /\ \E k \in recs : ret = p.PRELOAD[k].bus_count
                 /\ \A k \in recs : (\A j \in recs : j <= k) =>
                                        ret = p.PRELOAD[k].bus_count
           /\ recs = {} =>
                 ret = IF T = "W" THEN p.URW * p.URN * p.UE * p.UG
                       ELSE IF T = "I" THEN p.URN * p.UB * p.UG
                       ELSE p.UE * p.UB * p.UG

\* O streams of a projection that preloads W only and whose I and O products
\* differ
C14_Witness ==
    /\ StreamCountReturned
    /\ args.dtype = {"O"}
    /\ Len(args.projection.PRELOAD) = 1
    /\ args.projection.PRELOAD[1].dtype = "W"
    /\ args.projection.UE = 2
    /\ args.projection.URN = 1
    /\ args.projection.UB = 2
    /\ ret = 4 * args.projection.UG

\* a preloaded datatype: the record's bus_count is returned, not the product
C14_PreloadWitness ==
    /\ StreamCountReturned
    /\ args.dtype = {"I"}
    /\ Len(args.projection.PRELOAD) = 2
    /\ args.projection.PRELOAD[2].dtype = "I"
    /\ args.projection.PRELOAD[2].bus_count = 3
    /\ args.projection.UB = 2
    /\ args.projection.URN = 1
    /\ args.projection.UG = 1
    /\ ret = 3

BuffersReqdReturned == pc = "returned" /\ kind = "get_num_buffers_reqd"

\* the data-out width of a buffer: the summed width of its DATAOUT ports
DataOutWidth(b) ==
    LET ks == {k \in 1 .. Len(b) : b[k].type = "DATAOUT"}
    IN IF ks = {} THEN 0
       ELSE IF Cardinality(ks) = 1 THEN b[CHOOSE k \in ks : TRUE].width
       ELSE b[1].width + b[2].width

C15_FailWitness ==
    /\ BuffersReqdReturned
    /\ DataOutWidth(args.buffer_spec) = 3
    /\ args.stream_width = 4
    /\ status = "AssertionError"


(***************************************************************************)
(* HWB_Wrapper: shared and duplicated ports.                               *)
(***************************************************************************)
HwbElaborated == pc = "elaborated" /\ kind = "HWB_Wrapper"

HwbSpecPorts == {args.spec.ports[k] : k \in 1 .. Len(args.spec.ports)}

\* the connections between the top-level port name<idx> and the block's
\* port name of some instance
HwbConnsOf(name, idx) ==
    {c \in conns : c[1] = HwbTop(name, idx) \/ c[2] = HwbTop(name, idx)}

HwbLink(p, idx, i) ==
    IF p.direction = "in"
    THEN <<HwbTop(p.name, idx), HwbInst(p.name, i)>>
    ELSE <<HwbInst(p.name, i), HwbTop(p.name, idx)>>

\* one top-level port of the block's own name, connected to every instance,
\* and no port name_i
HwbIsShared(p) ==
    /\ <<p.direction, p.name, NoSuffix, p.width>> \in ports
    /\ HwbConnsOf(p.name, NoSuffix) =
          {HwbLink(p, NoSuffix, i) : i \in 0 .. args.count - 1}
    /\ \A i \in 0 .. args.count - 1 : ~\E q \in ports : q[2] = p.name /\ q[3] = i

\* one top-level port name_i per instance i, connected to that instance
\* only, and no port of the block's own name
HwbIsDuplicated(p) ==
    /\ \A i \in 0 .. args.count - 1 :
          /\ <<p.direction, p.name, i, p.width>> \in ports
          /\ HwbConnsOf(p.name, i) = {HwbLink(p, i, i)}
    /\ ~\E q \in ports : q[2] = p.name /\ q[3] = NoSuffix

C16_WenWitness ==
    /\ HwbElaborated
    /\ args.count >= 2
    /\ \E p \in HwbSpecPorts :
          p.type = "WEN" /\ p.direction = "in" /\ HwbIsDuplicated(p)

(***************************************************************************)
(* MLB_Wrapper: absorbing an inner projection that exceeds                 *)
(* possible_projections.                                                   *)
(***************************************************************************)
RewriteReturned == pc = "returned" /\ kind = "MLB_Wrapper"

IpValues(ip) == [k \in AxisNames |-> ip[k].value]

\* the rewriting rule as stated, on the values: an overflowing axis `from`
\* is folded into `into` when its native bound is 1 and fails otherwise
StatedFold(hw, r, from, into) ==
    IF r.status = "ok" /\ r.v[from] > hw[from]
    THEN IF hw[from] = 1
         THEN [r EXCEPT !.v = [@ EXCEPT ![into] = @ * r.v[from],
                                        ![from] = 1]]
         ELSE [r EXCEPT !.status = "fails"]
    ELSE r

StatedRewrite(hw, v) ==
    StatedFold(hw,
        StatedFold(hw,
            StatedFold(hw,
                StatedFold(hw, [status |-> "ok", v |-> v], "URW", "URN"),
                "URN", "UG"),
            "UB", "UG"),
        "UE", "UG")

Fits(hw, v) == \A k \in AxisNames : v[k] <= hw[k]

\* C17: an inner projection that exceeds possible_projections is absorbed:
\* an overflowing URW is folded into URN, an overflowing URN, UB or UE into
\* UG, each fold only when the native bound of the folded axis is 1, and
\* elaboration fails otherwise; so a projection whose folded form fits the
\* block is accepted with exactly the folded values, and one that needs a
\* fold on an axis whose native bound is not 1 is rejected.
C17_FoldsAbsorbed ==
    /\ RewriteReturned
    /\ "chans" \in DOMAIN args.ip.URN => "y" \in DOMAIN args.ip.URN
    =>  LET r == StatedRewrite(args.spec_keys, IpValues(args.ip))
        IN IF r.status = "fails" THEN status # "ok"
           ELSE /\ status = "ok" => IpValues(ret) = r.v
                /\ Fits(args.spec_keys, r.v) => status = "ok"

\* what the code does keep of the rule: an accepted projection has exactly
\* the stated folded values, which fit the block, and a projection that
\* needs a fold on an axis whose native bound is not 1 is rejected
C17_AcceptedIsFolded ==
    RewriteReturned =>
        LET r == StatedRewrite(args.spec_keys, IpValues(args.ip))
        IN /\ r.status = "fails" => status # "ok"
           /\ status = "ok" =>
                 /\ r.status = "ok"
                 /\ IpValues(ret) = r.v
                 /\ Fits(args.spec_keys, r.v)

\* an overflowing URW folded into URN
C17_UrwWitness ==
    /\ RewriteReturned
    /\ status = "ok"
    /\ args.ip.URW.value > args.spec_keys.URW
    /\ ret.URW.value = 1
    /\ ret.URN.value = args.ip.URN.value * args.ip.URW.value

\* an overflowing UB folded into UG
C17_UbWitness ==
    /\ RewriteReturned
    /\ status = "ok"
    /\ args.ip.UB.value > args.spec_keys.UB
    /\ ret.UB.value = 1
    /\ ret.UG.value = args.ip.UG.value * args.ip.UB.value

\* an overflowing URN whose fold into UG would fit the block, rejected
C17_UrnRejectedWitness ==
    /\ RewriteReturned
    /\ status = "AssertionError"
    /\ args.ip.URN.value > args.spec_keys.URN
    /\ args.spec_keys.URN = 1
    /\ LET r == StatedRewrite(args.spec_keys, IpValues(args.ip))
       IN r.status = "ok" /\ Fits(args.spec_keys, r.v)

(***************************************************************************)
(* WeightInterconnect: dilation of the kernel along x.                     *)
(***************************************************************************)
WeightDilated ==
    /\ WeightElaborated
    /\ status = "ok"
    /\ ~NamesW(args.projection)
    /\ args.dilx > 1
    /\ args.inner_projection.present

DilNumWeightIns ==
    args.inner_projection.UG * args.inner_projection.UE
    * args.inner_projection.URN

\* N, the number of weight sub-lanes of an MLB
DilLanes == args.inner_projection.URW_x * DilNumWeightIns

DilLaneWidth == args.mlb_width_used \div DilLanes

\* sub-lane n of outputs_to_mlb_k
DilLane(k, n) ==
    <<"outputs_to_mlb_", k, DilLaneWidth * n, DilLaneWidth * (n + 1)>>

DilZeroed(k, n) == <<ZERO, DilLane(k, n)>> \in conns

\* sub-lane n of MLB k reads the same sub-lane of the MLB's buffer slice
DilConnected(q, n) ==
    LET p == args.projection
        spb == args.buffer_width \div args.mlb_width_used
        stream_idx == WeightStreamIdx(p, q)
        start == (stream_idx % spb) * args.mlb_width_used
    IN <<<<"inputs_from_buffer_", stream_idx \div spb,
           start + DilLaneWidth * n, start + DilLaneWidth * (n + 1)>>,
         DilLane(MlbIdx(p, q), n)>> \in conns

\* the sub-lanes of the MLB at position q that the rule keeps
DilKept(q) ==
    {n \in 0 .. DilLanes - 1 :
        (args.inner_projection.URW_x * q.URW
         + (n % args.inner_projection.URW_x)) % args.dilx = 0}

\* every driver of outputs_to_mlb_k drives one whole sub-lane, and a
\* sub-lane is connected to the buffer iff it is kept and tied to zero iff
\* it is not
DilLanesWired(q) ==
    LET k == MlbIdx(args.projection, q)
    IN /\ \A c \in MlbDrivers(k) :
             \E n \in 0 .. DilLanes - 1 : c[2] = DilLane(k, n)
       /\ \A n \in 0 .. DilLanes - 1 :
             /\ DilConnected(q, n) <=> n \in DilKept(q)
             /\ DilZeroed(k, n) <=> n \notin DilKept(q)
             /\ Cardinality({c \in MlbDrivers(k) : c[2] = DilLane(k, n)}) = 1

\* C18 as stated: with dilx > 1 and an inner projection, every MLB has
\* exactly floor(N*(dilx-1)/dilx) sub-lanes tied to zero, N = inner.URW.x *
\* num_weight_ins, and a sub-lane is connected to the buffer iff
\* (inner.URW.x * urw + weight_x) mod dilx = 0.
C18_ZeroedStated ==
    WeightDilated =>
        \A q \in Positions(args.projection) :
            /\ DilLanesWired(q)
            /\ Cardinality({n \in 0 .. DilLanes - 1 :
                               DilZeroed(MlbIdx(args.projection, q), n)})
                  = (DilLanes * (args.dilx - 1)) \div args.dilx

\* C18 as the code has it: a sub-lane is connected to the buffer iff
\* (inner.URW.x * urw + weight_x) mod dilx = 0 and tied to zero otherwise,
\* so the MLB at URW index urw has num_weight_ins * #{weight_x <
\* inner.URW.x : (inner.URW.x * urw + weight_x) mod dilx # 0} sub-lanes
\* tied to zero: a number that depends on urw.
C18_ZeroedCode ==
    WeightDilated =>
        \A q \in Positions(args.projection) :
            /\ DilLanesWired(q)
            /\ Cardinality({n \in 0 .. DilLanes - 1 :
                               DilZeroed(MlbIdx(args.projection, q), n)})
                  = DilNumWeightIns
                    * Cardinality({weight_x \in
                                       0 .. args.inner_projection.URW_x - 1 :
                          (args.inner_projection.URW_x * q.URW + weight_x)
                          % args.dilx # 0})

\* an inner kernel two wide on two MLBs in a row, dilx = 2: each MLB keeps
\* one sub-lane of every pair
C18_Witness ==
    /\ WeightDilated
    /\ args.dilx = 2
    /\ args.inner_projection.URW_x = 2
    /\ args.projection.URW = 2
    /\ DilNumWeightIns = 2
    /\ \E q \in Positions(args.projection) :
          /\ q.URW = 1
          /\ DilConnected(q, 0)
          /\ DilZeroed(MlbIdx(args.projection, q), 1)
          /\ DilConnected(q, 2)
          /\ DilZeroed(MlbIdx(args.projection, q), 3)

\* an inner kernel one wide, dilx = 2: the MLB at urw = 1 is zeroed whole
C18_WholeMlbWitness ==
    /\ WeightDilated
    /\ args.dilx = 2
    /\ args.inner_projection.URW_x = 1
    /\ \E q \in Positions(args.projection) :
          /\ q.URW = 1
          /\ \A n \in 0 .. DilLanes - 1 :
                DilZeroed(MlbIdx(args.projection, q), n)

(***************************************************************************)
(* find_mappings: the returned mappings and the throughput figure.         *)
(***************************************************************************)
FindMappingsReturned == pc = "returned" /\ kind = "find_mappings"

ReturnedScores == {Estimator(args.estimator, M, args.m) : M \in ret.mappings}

ReturnedFit == \A M \in ret.mappings :
    M.B.I * M.C.I * M.E.I * M.PX.I * M.PY.I * M.RX.I * M.RY.I <= args.m

C20_PlainWitness ==
    /\ FindMappingsReturned
    /\ ~args.suggested_solution.given
    /\ Cardinality(ReturnedScores) >= 2
    /\ ret.tp \in ReturnedScores

\* no feasible mapping: an empty list and the figure 0
C20_EmptyWitness ==
    /\ FindMappingsReturned
    /\ ret.mappings = {}
    /\ ret.tp = 0

(***************************************************************************)
(* The MLB ports of the three per-MLB fabrics.                             *)
(***************************************************************************)
\* a fabric whose construct has passed its assertions and run its last loop
\* over the MLBs: WeightInterconnect and InputInterconnect elaborated
\* without error, OutputPSInterconnect at the TypeError that follows its
\* loop (C10)
FabricBuilt ==
    /\ pc = "elaborated"
    /\ \/ kind \in {"WeightInterconnect", "InputInterconnect"} /\ status = "ok"
       \/ kind = "OutputPSInterconnect" /\ status \in {"ok", "TypeError"}

FabricMlbWidth ==
    IF args.mlb_width < 0 THEN args.mlb_width_used ELSE args.mlb_width

PortsNamed(name, i) == {q \in ports : q[2] = name /\ q[3] = i}

\* the fabric wires the MLB positions of the projection one by one
FabricStreaming ==
    kind = "WeightInterconnect" => ~NamesW(args.projection)

\* C21: after elaboration with num_mlbs MLBs there is exactly one port
\* outputs_to_mlb_i and exactly one port inputs_from_mlb_i for every i in
\* [0, num_mlbs), and every outputs_to_mlb_i with i beyond the MLB
\* positions of the projection is driven to zero over its whole width and
\* by nothing else.
C21_MlbPorts ==
    FabricBuilt =>
        \A i \in 0 .. args.num_mlbs - 1 :
            /\ PortsNamed("outputs_to_mlb_", i) =
                  {<<"out", "outputs_to_mlb_", i, FabricMlbWidth>>}
            /\ PortsNamed("inputs_from_mlb_", i) =
                  {<<"in", "inputs_from_mlb_", i, FabricMlbWidth>>}
            /\ FabricStreaming /\ i >= get_mlb_count(args.projection) =>
                  MlbDrivers(i) =
                      {<<ZERO, <<"outputs_to_mlb_", i, 0, FabricMlbWidth>>>>}

\* a streaming WeightInterconnect with one MLB more than the projection
\* has positions
C21_Witness ==
    /\ FabricBuilt
    /\ kind = "WeightInterconnect"
    /\ FabricStreaming
    /\ get_mlb_count(args.projection) >= 4
    /\ args.num_mlbs = get_mlb_count(args.projection) + 1
    /\ <<ZERO, <<"outputs_to_mlb_", args.num_mlbs - 1, 0, FabricMlbWidth>>>>
          \in conns

\* the same for an InputInterconnect
C21_InputWitness ==
    /\ FabricBuilt
    /\ kind = "InputInterconnect"
    /\ args.num_mlbs = get_mlb_count(args.projection) + 1
    /\ <<ZERO, <<"outputs_to_mlb_", args.num_mlbs - 1, 0, FabricMlbWidth>>>>
          \in conns

\* and for an OutputPSInterconnect, whose construct has reached the loop
\* over the activation outputs
C21_PSWitness ==
    /\ FabricBuilt
    /\ kind = "OutputPSInterconnect"
    /\ args.num_mlbs = get_mlb_count(args.projection) + 1
    /\ <<ZERO, <<"outputs_to_mlb_", args.num_mlbs - 1, 0, FabricMlbWidth>>>>
          \in conns

(***************************************************************************)
(* MLB_Wrapper: URW and URN both beyond possible_projections.              *)
(***************************************************************************)
BothOverflow ==
    /\ RewriteReturned
    /\ args.ip.URW.value > args.spec_keys.URW
    /\ args.ip.URN.value > args.spec_keys.URN

\* C22: an inner projection with URW > possible_projections.URW and URN >
\* possible_projections.URN is rejected with an assertion error; no
\* rewritten projection is produced.
C22_BothOverflowAsserts ==
    BothOverflow => status = "AssertionError"

\* what holds on every input: such a projection is never accepted, and the
\* exception is an AssertionError unless URN carries chans without y
C22_BothOverflowRejected ==
    BothOverflow =>
        /\ status # "ok"
        /\ ("chans" \in DOMAIN args.ip.URN => "y" \in DOMAIN args.ip.URN)
           => status = "AssertionError"

\* both overflow, the products fit the block, URN carries chans without y:
\* the URW fold raises KeyError before any assertion on URN
C22_KeyErrorWitness ==
    /\ BothOverflow
    /\ args.spec_keys.URW = 1
    /\ "chans" \in DOMAIN args.ip.URN
    /\ "y" \notin DOMAIN args.ip.URN
    /\ status = "KeyError"

(***************************************************************************)
(* get_overall_idx on a subset of the axes.                                *)
(***************************************************************************)
IdxReturned == pc = "returned" /\ kind = "get_overall_idx" /\ status = "ok"

\* the in-range index dictionaries over the axes S
InRangeIdxs(p, S) ==
    {j \in [S -> 0 .. MaxFactor - 1] : \A a \in S : j[a] < p[a]}

RECURSIVE SetProduct(_, _)
SetProduct(p, S) ==
    IF S = {} THEN 1
    ELSE LET a == CHOOSE b \in S : TRUE IN p[a] * SetProduct(p, S \ {a})

\* C23: for a projection p and supplied axes S, an axis missing from idxs
\* adds nothing to get_overall_idx(p, idxs) (the result does not depend on
\* the factor of a missing axis), and over the in-range index tuples on S
\* the results are exactly 0 .. product(p[a] for a in S) - 1, each once;
\* over {URW, URN, UE, UG} that is the weight stream count of p.
C23_DenseOnSupplied ==
    IdxReturned =>
        LET p == args.projection
            S == DOMAIN args.idxs
            image == {get_overall_idx(p, j) : j \in InRangeIdxs(p, S)}
        IN /\ image = 0 .. SetProduct(p, S) - 1
           /\ Cardinality(InRangeIdxs(p, S)) = Cardinality(image)
           /\ ret \in image
           /\ \A q \in [AxisNames -> Factors] :
                 (\A a \in S : q[a] = p[a]) =>
                     get_overall_idx(q, args.idxs) = ret
           /\ S = {"URW", "URN", "UE", "UG"} =>
                 Cardinality(image) = get_proj_stream_count(p, {"W"}).value

\* a weight stream index: UB is left out of idxs although p unrolls it,
\* and the last stream is reached
C23_Witness ==
    /\ IdxReturned
    /\ DOMAIN args.idxs = {"URW", "URN", "UE", "UG"}
    /\ args.projection.UB = 2
    /\ args.projection.UE = 2
    /\ args.projection.UG = 2
    /\ ret = 3
    /\ ret = get_proj_stream_count(args.projection, {"W"}).value - 1
(***************************************************************************)
(* C24: the three fabrics agree on the MLB index of a position.            *)
(***************************************************************************)
\* inputs_from_mlb_i feeds outputs_to_mlb_(i+1): MLBs i and i+1 are
\* neighbours of one chain
ChainLink(i) ==
    \E c \in conns : /\ c[1][1] = "inputs_from_mlb_" /\ c[1][2] = i
                     /\ c[2][1] = "outputs_to_mlb_" /\ c[2][2] = i + 1

\* MLBs i and j are members of one chain
Chained(i, j) ==
    LET lo == IF i <= j THEN i ELSE j
        hi == IF i <= j THEN j ELSE i
    IN \A k \in lo .. hi - 1 : ChainLink(k)

\* the index WeightInterconnect gives a position (module_classes.py:818-820)
WeightOutIdx(p, q) == get_overall_idx(p, IdxDict(q, AxisNames))

\* C24: for every position (urw, urn, ub, ue, ug) of the projection of a
\* built fabric, the WeightInterconnect index (get_overall_idx over all five
\* axes) equals the InputInterconnect index chain_idx_I * URW + urw,
\* chain_idx_I = get_overall_idx over {URN, UB, UE, UG}, and lies in the
\* OutputPSInterconnect chain [chain_idx_O * URW * URN,
\* (chain_idx_O + 1) * URW * URN), chain_idx_O = get_overall_idx over
\* {UB, UE, UG}; in an elaborated InputInterconnect two MLBs are chained
\* exactly when their positions differ only in URW, in an elaborated
\* OutputPSInterconnect exactly when they differ only in URW and URN.
C24_FabricsAgree ==
    FabricBuilt /\ FabricStreaming =>
        LET p == args.projection
        IN /\ \A q \in Positions(p) :
                 LET chain_idx_I == get_overall_idx(p, IdxDict(q,
                                        {"URN", "UB", "UE", "UG"}))
                     chain_idx_O == get_overall_idx(p, IdxDict(q,
                                        {"UB", "UE", "UG"}))
                 IN /\ WeightOutIdx(p, q) = InputChainStart(p, chain_idx_I) + q.URW
                    /\ WeightOutIdx(p, q) >= PSChainStart(p, chain_idx_O)
                    /\ WeightOutIdx(p, q) < PSChainStart(p, chain_idx_O + 1)
                    /\ kind = "WeightInterconnect" =>
                           /\ PortsNamed("outputs_to_mlb_", WeightOutIdx(p, q)) # {}
                           /\ MlbDrivers(WeightOutIdx(p, q)) # {}
           /\ kind = "InputInterconnect" =>
                  \A q1, q2 \in Positions(p) :
                      Chained(WeightOutIdx(p, q1), WeightOutIdx(p, q2)) <=>
                          (\A x \in AxisNames \ {"URW"} : q1[x] = q2[x])
           /\ kind = "OutputPSInterconnect" =>
                  \A q1, q2 \in Positions(p) :
                      Chained(WeightOutIdx(p, q1), WeightOutIdx(p, q2)) <=>
                          (\A x \in AxisNames \ {"URW", "URN"} : q1[x] = q2[x])

\* an InputInterconnect whose chains have two members and differ in URN
C24_Witness ==
    /\ FabricBuilt
    /\ kind = "InputInterconnect"
    /\ args.projection.URW = 2
    /\ args.projection.URN = 2
    /\ args.projection.UB = 2
    /\ ChainLink(0)
    /\ ~ChainLink(1)
    /\ ChainLink(2)

\* an OutputPSInterconnect whose chains run over URW and URN
C24_PSWitness ==
    /\ FabricBuilt
    /\ kind = "OutputPSInterconnect"
    /\ args.projection.URW = 2
    /\ args.projection.URN = 2
    /\ args.projection.UE = 2
    /\ ChainLink(2)
    /\ ~ChainLink(3)

\* a WeightInterconnect with every axis but UG unrolled
C24_WeightWitness ==
    /\ FabricBuilt
    /\ FabricStreaming
    /\ kind = "WeightInterconnect"
    /\ args.projection.URW = 2
    /\ args.projection.URN = 2
    /\ args.projection.UB = 2
    /\ MlbDrivers(7) # {}

(***************************************************************************)
(* C25: the buffer slices of a streaming WeightInterconnect.               *)
(***************************************************************************)
\* a WeightInterconnect without a weight PRELOAD whose assertions of
\* module_classes.py:758-777 hold, after elaboration
WeightStreamedPastAsserts ==
    /\ WeightElaborated
    /\ ~NamesW(args.projection)
    /\ WeightAsserts(args)

\* two bit ranges [lo, hi) with a bit in common
RangesOverlap(c1, c2) == c1[3] < c2[4] /\ c2[3] < c1[4]

\* the connections onto the readback port outputs_to_buffer_j
ReadbackDrivers == {c \in conns : c[2][1] = "outputs_to_buffer_"}

\* C25: when a streaming WeightInterconnect passes its assertions, every
\* position has input_bus_idx < num_buffers and
\* (section + 1) * mlb_width_used <= buffer_width, every wired slice of an
\* inputs_from_buffer port lies in an existing port and within its width,
\* no wiring step fails (without dilation the elaboration ends without
\* error), and no two connections drive a common bit of an
\* outputs_to_buffer_j port: each is driven by the UB = 0 member of a
\* weight-sharing group, on the slice its group reads.
C25_SlicesInRange ==
    WeightStreamedPastAsserts =>
        LET p == args.projection
            used == args.mlb_width_used
        IN /\ \A q \in Positions(p) :
                 LET stream_idx == WeightStreamIdx(p, q)
                 IN /\ WeightBusIdx(args, stream_idx) < args.num_buffers
                    /\ (WeightSectionIdx(args, stream_idx) + 1) * used
                           <= args.buffer_width
           /\ \A c \in conns :
                 c[1][1] = "inputs_from_buffer_" =>
                     /\ c[1][2] \in 0 .. args.num_buffers - 1
                     /\ 0 <= c[1][3]
                     /\ c[1][4] <= args.buffer_width
           /\ args.dilx = 1 => status = "ok"
           /\ \A c1, c2 \in ReadbackDrivers :
                 (c1 # c2 /\ c1[2][2] = c2[2][2]) => ~RangesOverlap(c1[2], c2[2])
           /\ \A c \in ReadbackDrivers :
                 \E q \in Positions(p) :
                     LET stream_idx == WeightStreamIdx(p, q)
                         section == WeightSectionIdx(args, stream_idx)
                     IN /\ q.UB = 0
                        /\ c[1] = <<"inputs_from_mlb_", MlbIdx(p, q), 0, used>>
                        /\ c[2] = <<"outputs_to_buffer_",
                                    WeightBusIdx(args, stream_idx),
                                    section * used, (section + 1) * used>>

\* UB = 2 shares weights, two streams to a buffer and a second buffer in use:
\* the last section of the last buffer is wired, and read back once
C25_Witness ==
    /\ WeightStreamedPastAsserts
    /\ status = "ok"
    /\ args.dilx = 1
    /\ args.projection.UB = 2
    /\ args.projection.URW = 2
    /\ args.projection.URN = 2
    /\ args.buffer_width = 2 * args.mlb_width_used
    /\ args.num_buffers = 2
    /\ \E c \in conns : /\ c[1][1] = "inputs_from_buffer_" /\ c[1][2] = 1
                        /\ c[1][4] = args.buffer_width
    /\ Cardinality(ReadbackDrivers) = 4
    /\ Cardinality({c \in conns : c[1][1] = "inputs_from_buffer_"}) = 8

(***************************************************************************)
(* C26, C27: what the rewriting against possible_projections keeps.        *)
(***************************************************************************)
\* C26: when the rewriting of an inner projection completes without an
\* exception, the rewritten projection has the product URW*URN*UE*UB*UG of
\* the requested one and every axis value is at most the
\* possible_projections bound of that axis.
C26_ProductKept ==
    (RewriteReturned /\ status = "ok") =>
        /\ IpTotalProduct(ret) = IpTotalProduct(args.ip)
        /\ \A k \in AxisNames : ret[k].value <= args.spec_keys[k]

\* URW and UB both fold (into URN and into UG): the projection changes, the
\* product stays
C26_Witness ==
    /\ RewriteReturned
    /\ status = "ok"
    /\ args.ip.URW.value = 2
    /\ args.ip.UB.value = 2
    /\ args.ip.UG.value = 2
    /\ ret.URW.value = 1
    /\ ret.URN.value = 2
    /\ ret.UB.value = 1
    /\ ret.UG.value = 4

\* C27: construct leaves the caller's projection list as it was, whether the
\* rewriting succeeds or raises: every inner_projection record, sub-axes
\* x, y, chans and batches included, is unchanged; only the private copy is
\* rewritten.
C27_CallerUnchanged ==
    [][RewriteInnerProjection => args' = args]_vars

\* the copy was rewritten, sub-axes too, and differs from the caller's record
C27_Witness ==
    /\ RewriteReturned
    /\ status = "ok"
    /\ ret # args.ip
    /\ "x" \in DOMAIN args.ip.URW
    /\ args.ip.URW.x = 2
    /\ ret.URW.x = 1
    /\ ret.URN.y = 2

\* the rewriting raised after its first assignments: the copy is half
\* rewritten
C27_FailWitness ==
    /\ RewriteReturned
    /\ status = "AssertionError"
    /\ ret # args.ip
    /\ args.ip.URW.value = 2
    /\ ret.URW.value = 1

(***************************************************************************)
(* C28: the MAC-count check of Datapath.                                   *)
(***************************************************************************)
DatapathChecked == pc = "returned" /\ kind = "Datapath"

\* the positions of the projections whose inner MAC count exceeds num_units
ExcessProjections ==
    {i \in 1 .. Len(args.proj_specs) :
        get_mlb_count(args.proj_specs[i].inner_projection)
            > args.mlb_spec.MAC_info.num_units}

\* C28: Datapath elaboration with N projections fails if any one of them has
\* an inner MAC count (the product of its inner URW, URN, UB, UE, UG) above
\* mlb_spec.MAC_info.num_units, whatever its position in the list.
C28_AnyExcessFails ==
    (DatapathChecked /\ ExcessProjections # {}) => status # "ok"

\* what the code checks: the MAC count of the last projection the printing
\* loop visited (the last of the list, or the third of a longer list)
C28_LastVisitedFails ==
    (DatapathChecked /\ ZipIterations(args.proj_specs) \in ExcessProjections)
        => status = "AssertionError"

\* two projections, the first of 4 MACs on a block of 2 units, the second of
\* 1 MAC: the check passes
C28_FirstExcessPasses ==
    /\ DatapathChecked
    /\ Len(args.proj_specs) = 2
    /\ args.mlb_spec.MAC_info.num_units = 2
    /\ get_mlb_count(args.proj_specs[1].inner_projection) = 4
    /\ get_mlb_count(args.proj_specs[2].inner_projection) = 1
    /\ status = "ok"
    /\ ret = 1

\* four projections, only the fourth too large: the third is compared
C28_FourthExcessPasses ==
    /\ DatapathChecked
    /\ Len(args.proj_specs) = 4
    /\ ExcessProjections = {4}
    /\ status = "ok"

(***************************************************************************)
(* C29: connect_ports_by_name.                                             *)
(***************************************************************************)
ConnectReturned == pc = "returned" /\ kind = "connect_ports_by_name"

\* the ports named name_<i>
PortsCalled(S, name) == {q \in S : q[1] = name}

\* the ports in whose name the pattern is found
PortsFound(S, name) == {q \in S : NameFound(name, q)}

\* C29: when connect_ports_by_name returns, each output port name1_<i> of
\* inst1 is connected to exactly one input port name2_<j> of inst2, with
\* i * factor1 = j * factor2, and each input port name2_<j> to exactly one
\* output; the call fails with an assertion error if inst1 has no matching
\* output, if a matching input has no (remaining) matching output, or if a
\* matching output is left unconnected.
C29_EachOutputConnected ==
    ConnectReturned =>
        LET outs == PortsCalled(args.inst1, args.name1)
            ins == PortsCalled(args.inst2, args.name2)
        IN /\ status = "ok" =>
                 /\ \A q \in outs :
                       /\ Cardinality({c \in conns : c[1] = q}) = 1
                       /\ \A c \in conns :
                             c[1] = q =>
                                 /\ c[2] \in ins
                                 /\ q[2] * args.factor1 = c[2][2] * args.factor2
                 /\ \A r \in ins : Cardinality({c \in conns : c[2] = r}) = 1
           /\ (\/ outs = {}
               \/ \E r \in ins : \A q \in outs :
                      q[2] * args.factor1 # r[2] * args.factor2
               \/ \E q \in outs : \A r \in ins :
                      q[2] * args.factor1 # r[2] * args.factor2)
                  => status = "AssertionError"

\* what holds on every call: the pattern is found in every port name that
\* ends with it, so the claim holds of the ports the pattern finds when no
\* two found outputs have the same index
C29_FoundPortsConnected ==
    ConnectReturned =>
        LET outs == PortsFound(args.inst1, args.name1)
            ins == PortsFound(args.inst2, args.name2)
            distinct == \A q1, q2 \in outs : q1[2] = q2[2] => q1 = q2
        IN /\ (status = "ok" /\ distinct) =>
                 /\ \A q \in outs :
                       /\ Cardinality({c \in conns : c[1] = q}) = 1
                       /\ \A c \in conns :
                             c[1] = q =>
                                 /\ c[2] \in ins
                                 /\ q[2] * args.factor1 = c[2][2] * args.factor2
                 /\ \A r \in ins : Cardinality({c \in conns : c[2] = r}) = 1
           /\ (\/ outs = {}
               \/ \E r \in ins : \A q \in outs :
                      q[2] * args.factor1 # r[2] * args.factor2
               \/ \E q \in outs : \A r \in ins :
                      q[2] * args.factor1 # r[2] * args.factor2)
                  => status = "AssertionError"
           /\ status \in {"ok", "AssertionError"}

\* outputs a_0 and ba_0, input c_0: the call returns with ba_0 connected and
\* a_0 left open
C29_OutputDropped ==
    /\ ConnectReturned
    /\ status = "ok"
    /\ args.inst1 = {<<(<<"a">>), 0>>, <<(<<"b", "a">>), 0>>}
    /\ args.inst2 = {<<(<<"c">>), 0>>}
    /\ conns = {<<(<<(<<"b", "a">>), 0>>), (<<(<<"c">>), 0>>)>>}

\* a_0, a_1 onto c_0, c_2 with factor1 = 2, factor2 = 1
C29_FactorWitness ==
    /\ ConnectReturned
    /\ status = "ok"
    /\ args.factor1 = 2
    /\ args.factor2 = 1
    /\ Cardinality(conns) = 2
    /\ <<(<<(<<"a">>), 1>>), (<<(<<"c">>), 2>>)>> \in conns

(***************************************************************************)
(* C30: AddInPort and AddOutPort are idempotent per name.                  *)
(***************************************************************************)
\* the call the step makes
PortCall == kind = "Component" /\ args'.calls = args.calls + 1

\* the names the call asks for (prefix p_)
CalledNames ==
    IF args'.fn \in {"AddInPort", "AddOutPort"} THEN {args'.idx}
    ELSE args'.idx .. args'.idx + args'.n - 1

\* C30: in any sequence of AddInPort, AddOutPort, add_n_inputs and
\* add_n_outputs calls on one module each port name denotes exactly one
\* port; a call with a name the module already has returns the existing port
\* and leaves it as it was (width and direction kept, no second tie-off
\* wire); a call with a new name adds one port of the requested width and
\* direction, and a tie-off wire for an input.
C30_OnePortPerName ==
    [][PortCall =>
        /\ \A q1, q2 \in ports' : (q1[2] = q2[2] /\ q1[3] = q2[3]) => q1 = q2
        /\ ports \subseteq ports'
        /\ wires \subseteq wires'
        /\ \A i \in CalledNames :
              IF HasPort(CurrentModule, "p_", i)
              THEN /\ PortNamed(CurrentModule, "p_", i) \in ports'
                   /\ (<<"p_", i>> \in wires') = (<<"p_", i>> \in wires)
                   /\ args'.fn \in {"AddInPort", "AddOutPort"} =>
                          ret' = PortNamed(CurrentModule, "p_", i)
              ELSE /\ <<(IF args'.fn \in {"AddInPort", "add_n_inputs"}
                         THEN "in" ELSE "out"), "p_", i, args'.width>> \in ports'
                   /\ (<<"p_", i>> \in wires')
                          = (args'.fn \in {"AddInPort", "add_n_inputs"})
        /\ \A q \in ports' \ ports : q[2] = "p_" /\ q[3] \in CalledNames
        /\ \A w \in wires' \ wires : w[1] = "p_" /\ w[2] \in CalledNames
    ]_vars

\* AddOutPort was called with the name of an existing, narrower input port:
\* the input port was returned, and is the only port of that name
C30_Witness ==
    /\ kind = "Component"
    /\ args.fn = "AddOutPort"
    /\ args.width = MaxWidth
    /\ args.idx = 0
    /\ args.calls >= 2
    /\ ret = <<"in", "p_", 0, 1>>
    /\ {q \in ports : q[3] = 0} = {<<"in", "p_", 0, 1>>}
    /\ <<"p_", 0>> \in wires

\* add_n_inputs ran over a range of which one name was an output port: that
\* port stays an output without tie-off, the others are new inputs
C30_RangeWitness ==
    /\ kind = "Component"
    /\ args.fn = "add_n_inputs"
    /\ args.n = 2
    /\ args.idx = 0
    /\ args.width = MaxWidth
    /\ ports = {<<"in", "p_", 0, MaxWidth>>, <<"out", "p_", 1, 1>>}
    /\ wires = {<<"p_", 0>>}

====
